---- MODULE Spec2Model ----
(***************************************************************************)
(* XzalgoChain, a 320-bit hash: the streaming interface (init, update,     *)
(* final, reset, wipe), the block compressor, the salt generator, the      *)
(* LITTLE-box executors (scalar, AVX2, NEON) and the BIG-box stage.         *)
(*                                                                         *)
(* A uint64_t is a tuple of 8 bytes, least significant byte first, so that *)
(* every operation is the 64-bit operation of the C source, modulo 2^64.   *)
(* A C array a[0..n-1] is a tuple; its element a[i] is written a[i + 1].   *)
(***************************************************************************)
EXTENDS Integers, Sequences, FiniteSets, TLC

(* ------------------------- 64-bit words ------------------------------- *)

\* After(v, e) is e, with v evaluated first: the statement that computes v
\* is executed before the statements that use it.
After(v, e) == IF v = v THEN e ELSE e

\* A 64-bit literal, written as its four 16-bit groups, most significant first.
U64(a, b, c, d) ==
  <<d % 256, d \div 256, c % 256, c \div 256,
    b % 256, b \div 256, a % 256, a \div 256>>

ZERO64 == <<0, 0, 0, 0, 0, 0, 0, 0>>

Pow2 == [n \in 0..8 |-> 2^n]

Xor4 ==
  [a \in 0..15 |-> [b \in 0..15 |->
     ((a + b) % 2)
     + 2 * (((a \div 2) + (b \div 2)) % 2)
     + 4 * (((a \div 4) + (b \div 4)) % 2)
     + 8 * (((a \div 8) + (b \div 8)) % 2)]]

And4 ==
  [a \in 0..15 |-> [b \in 0..15 |->
     ((a % 2) * (b % 2))
     + 2 * (((a \div 2) % 2) * ((b \div 2) % 2))
     + 4 * (((a \div 4) % 2) * ((b \div 4) % 2))
     + 8 * ((a \div 8) * (b \div 8))]]

\* Byte-wise ^ and & of the C source, tabulated.
XorTab ==
  [a \in 0..255 |-> [b \in 0..255 |->
     16 * Xor4[a \div 16][b \div 16] + Xor4[a % 16][b % 16]]]

AndTab ==
  [a \in 0..255 |-> [b \in 0..255 |->
     16 * And4[a \div 16][b \div 16] + And4[a % 16][b % 16]]]

OrTab ==
  [a \in 0..255 |-> [b \in 0..255 |-> a + b - AndTab[a][b]]]

\* The bytes T[a[i]][b[i]] of a byte-wise operation tabulated in T
ByteOp(T, a, b) ==
  <<T[a[1]][b[1]], T[a[2]][b[2]], T[a[3]][b[3]], T[a[4]][b[4]],
    T[a[5]][b[5]], T[a[6]][b[6]], T[a[7]][b[7]], T[a[8]][b[8]]>>

\* a ^ b
XOR(a, b) == ByteOp(XorTab, a, b)

\* a & b
AND(a, b) == ByteOp(AndTab, a, b)

\* a | b
OR(a, b) == ByteOp(OrTab, a, b)

\* ~a
NOT(a) ==
  <<255 - a[1], 255 - a[2], 255 - a[3], 255 - a[4],
    255 - a[5], 255 - a[6], 255 - a[7], 255 - a[8]>>

\* a + b, wrapping at 2^64
ADD(a, b) ==
  LET s1 == a[1] + b[1]
      s2 == a[2] + b[2] + (s1 \div 256)
      s3 == a[3] + b[3] + (s2 \div 256)
      s4 == a[4] + b[4] + (s3 \div 256)
      s5 == a[5] + b[5] + (s4 \div 256)
      s6 == a[6] + b[6] + (s5 \div 256)
      s7 == a[7] + b[7] + (s6 \div 256)
      s8 == a[8] + b[8] + (s7 \div 256)
  IN  <<s1 % 256, s2 % 256, s3 % 256, s4 % 256,
        s5 % 256, s6 % 256, s7 % 256, s8 % 256>>

\* a * b, the low 64 bits of the product
MUL(a, b) ==
  LET p1 == a[1]*b[1]
      p2 == a[1]*b[2] + a[2]*b[1] + (p1 \div 256)
      p3 == a[1]*b[3] + a[2]*b[2] + a[3]*b[1] + (p2 \div 256)
      p4 == a[1]*b[4] + a[2]*b[3] + a[3]*b[2] + a[4]*b[1] + (p3 \div 256)
      p5 == a[1]*b[5] + a[2]*b[4] + a[3]*b[3] + a[4]*b[2] + a[5]*b[1] + (p4 \div 256)
      p6 == a[1]*b[6] + a[2]*b[5] + a[3]*b[4] + a[4]*b[3] + a[5]*b[2] + a[6]*b[1]
            + (p5 \div 256)
      p7 == a[1]*b[7] + a[2]*b[6] + a[3]*b[5] + a[4]*b[4] + a[5]*b[3] + a[6]*b[2]
            + a[7]*b[1] + (p6 \div 256)
      p8 == a[1]*b[8] + a[2]*b[7] + a[3]*b[6] + a[4]*b[5] + a[5]*b[4] + a[6]*b[3]
            + a[7]*b[2] + a[8]*b[1] + (p7 \div 256)
  IN  <<p1 % 256, p2 % 256, p3 % 256, p4 % 256,
        p5 % 256, p6 % 256, p7 % 256, p8 % 256>>

\* ShlLo[s][b] is the low byte of b << s and ShlHi[s][b] the byte carried
\* out of it, b >> (8 - s), for 0 <= s <= 8
ShlLo == [s \in 0..8 |-> [b \in 0..255 |-> (b * Pow2[s]) % 256]]
ShlHi == [s \in 0..8 |-> [b \in 0..255 |-> b \div Pow2[8 - s]]]

\* Byte i of a word moved up by q bytes comes from byte i - q: UpIdx[q][i]
\* is its position in the 9-tuple of the word's bytes followed by a zero
\* byte; DownIdx is the same for a move down, RotIdx for a rotation upwards
UpIdx == [q \in 0..8 |-> [i \in 1..8 |-> IF i - q >= 1 THEN i - q ELSE 9]]
DownIdx == [q \in 0..8 |-> [i \in 1..8 |-> IF i + q <= 8 THEN i + q ELSE 9]]
RotIdx == [q \in 0..8 |-> [i \in 1..8 |-> ((i - 1 - q) % 8) + 1]]

\* Byte i of the result is made of the byte at p[i], through the table t,
\* and of its neighbour at c[i], through the table u
ShiftBytes(z, t, u, p, c) ==
  <<t[z[p[1]]] + u[z[c[1]]], t[z[p[2]]] + u[z[c[2]]],
    t[z[p[3]]] + u[z[c[3]]], t[z[p[4]]] + u[z[c[4]]],
    t[z[p[5]]] + u[z[c[5]]], t[z[p[6]]] + u[z[c[6]]],
    t[z[p[7]]] + u[z[c[7]]], t[z[p[8]]] + u[z[c[8]]]>>

\* The bytes of a, followed by a zero byte
Wide(a) == <<a[1], a[2], a[3], a[4], a[5], a[6], a[7], a[8], 0>>

\* a << n for 0 <= n <= 63: bits shifted out are lost
SHL(a, n) ==
  ShiftBytes(Wide(a), ShlLo[n % 8], ShlHi[n % 8],
             UpIdx[n \div 8], UpIdx[(n \div 8) + 1])

\* a >> n for 0 <= n <= 63: zeros shifted in
SHR(a, n) ==
  ShiftBytes(Wide(a), ShlHi[8 - (n % 8)], ShlLo[8 - (n % 8)],
             DownIdx[n \div 8], DownIdx[(n \div 8) + 1])

\* The rotation (x << n) | (x >> (64 - n)) for 0 <= n <= 63
ROTL(a, n) ==
  ShiftBytes(a, ShlLo[n % 8], ShlHi[n % 8],
             RotIdx[n \div 8], RotIdx[(n \div 8) + 1])

\* x ^ (x >> n) and x ^ (x << n): the statements x ^= x >> n and x ^= x << n
xor_shr(x, n) == XOR(x, SHR(x, n))
xor_shl(x, n) == XOR(x, SHL(x, n))

(* --------------------------- utils.h ---------------------------------- *)

\* rotl64: n is masked to 0..63
rotl64(x, n) == ROTL(x, n % 64)

\* rotr64: n is masked to 0..63
rotr64(x, n) == ROTL(x, (64 - (n % 64)) % 64)

\* __builtin_bswap64
XZALGOCHAIN_BSWAP64(v) == <<v[8], v[7], v[6], v[5], v[4], v[3], v[2], v[1]>>

\* The 8 bytes a host stores for the uint64_t v, lowest address first
\* (what memcpy(b, &v, 8) writes), and the uint64_t it reads from 8 bytes
\* (what memcpy(&v, b, 8) or a load through a uint64_t pointer gives).
StoreU64(v, bigEndian) == IF bigEndian THEN XZALGOCHAIN_BSWAP64(v) ELSE v
LoadU64(b, bigEndian) == IF bigEndian THEN XZALGOCHAIN_BSWAP64(b) ELSE b

\* bytes_to_u64 on the 8 bytes mem[off..off+7] of a byte array
bytes_to_u64(mem, off, bigEndian) ==
  LET b == <<mem[off + 1], mem[off + 2], mem[off + 3], mem[off + 4],
             mem[off + 5], mem[off + 6], mem[off + 7], mem[off + 8]>>
  IN  IF bigEndian
      THEN \* b[0] | b[1] << 8 | ... | b[7] << 56
           <<b[1], b[2], b[3], b[4], b[5], b[6], b[7], b[8]>>
      ELSE LoadU64(b, bigEndian)

\* A u64_to_bytes that copies the word as the machine holds it
u64_to_bytes_native(v, bigEndian) == StoreU64(v, bigEndian)

\* u64_to_bytes: the 8 bytes written for v
u64_to_bytes(v, bigEndian) ==
  IF bigEndian
  THEN StoreU64(XZALGOCHAIN_BSWAP64(v), bigEndian)
  ELSE StoreU64(v, bigEndian)

(* --------------------------- config.h --------------------------------- *)

XZALGOCHAIN_HASH_SIZE == 40
LITTLE_BOX_COUNT == 10
BIG_BOX_COUNT == 5
LITTLE_BOX_PROCESSES == 10
ROUND_CONSTANTS_SIZE == 128
SIMD_NONE == 0
SIMD_AVX2 == 1
SIMD_NEON == 2

ROUND_CONSTANTS_TABLE ==
  <<
     U64(\h428A, \h2F98, \hD728, \hAE22), U64(\h7137, \h4491, \h23EF, \h65CD),
     U64(\hB5C0, \hFBCF, \hEC4D, \h3B2F), U64(\hE9B5, \hDBA5, \h8189, \hDBBC),
     U64(\h3956, \hC25B, \hF348, \hB538), U64(\h59F1, \h11F1, \hB605, \hD019),
     U64(\h923F, \h82A4, \hAF19, \h4F9B), U64(\hAB1C, \h5ED5, \hDA6D, \h8118),
     U64(\hD807, \hAA98, \hA303, \h0242), U64(\h1283, \h5B01, \h4570, \h6FBE),
     U64(\h2431, \h85BE, \h4EE4, \hB28C), U64(\h550C, \h7DC3, \hD5FF, \hB4E2),
     U64(\h72BE, \h5D74, \hF27B, \h896F), U64(\h80DE, \hB1FE, \h3B16, \h96B1),
     U64(\h9BDC, \h06A7, \h25C7, \h1235), U64(\hC19B, \hF174, \hCF69, \h2694),
     U64(\hE49B, \h69C1, \h9EF1, \h4AD2), U64(\hEFBE, \h4786, \h384F, \h25E3),
     U64(\h0FC1, \h9DC6, \h8B8C, \hD5B5), U64(\h240C, \hA1CC, \h77AC, \h9C65),
     U64(\h2DE9, \h2C6F, \h592B, \h0275), U64(\h4A74, \h84AA, \h6EA6, \hE483),
     U64(\h5CB0, \hA9DC, \hBD41, \hFBD4), U64(\h76F9, \h88DA, \h8311, \h53B5),
     U64(\h983E, \h5152, \hEE66, \hDFAB), U64(\hA831, \hC66D, \h2DB4, \h3210),
     U64(\hB003, \h27C8, \h98FB, \h213F), U64(\hBF59, \h7FC7, \hBEEF, \h0EE4),
     U64(\hC6E0, \h0BF3, \h3DA8, \h8FC2), U64(\hD5A7, \h9147, \h930A, \hA725),
     U64(\h06CA, \h6351, \hE003, \h826F), U64(\h1429, \h2967, \h0A0E, \h6E70),
     U64(\h27B7, \h0A85, \h46D2, \h2FFC), U64(\h2E1B, \h2138, \h5C26, \hC926),
     U64(\h4D2C, \h6DFC, \h5AC4, \h2AED), U64(\h5338, \h0D13, \h9D95, \hB3DF),
     U64(\h650A, \h7354, \h8BAF, \h63DE), U64(\h766A, \h0ABB, \h3C77, \hB2A8),
     U64(\h81C2, \hC92E, \h47ED, \hAEE6), U64(\h9272, \h2C85, \h1482, \h353B),
     U64(\hA2BF, \hE8A1, \h4CF1, \h0364), U64(\hA81A, \h664B, \hBC42, \h3001),
     U64(\hC24B, \h8B70, \hD0F8, \h9791), U64(\hC76C, \h51A3, \h0654, \hBE30),
     U64(\hD192, \hE819, \hD6EF, \h5218), U64(\hD699, \h0624, \h5565, \hA910),
     U64(\hF40E, \h3585, \h5771, \h202A), U64(\h106A, \hA070, \h32BB, \hD1B8),
     U64(\h19A4, \hC116, \hB8D2, \hD0C8), U64(\h1E37, \h6C08, \h5141, \hAB53),
     U64(\h2748, \h774C, \hDF8E, \hEB99), U64(\h34B0, \hBCB5, \hE19B, \h48A8),
     U64(\h391C, \h0CB3, \hC5C9, \h5A63), U64(\h4ED8, \hAA4A, \hE341, \h8ACB),
     U64(\h5B9C, \hCA4F, \h7763, \hE373), U64(\h682E, \h6FF3, \hD6B2, \hB8A3),
     U64(\h748F, \h82EE, \h5DEF, \hB2FC), U64(\h78A5, \h636F, \h4317, \h2F60),
     U64(\h84C8, \h7814, \hA1F0, \hAB72), U64(\h8CC7, \h0208, \h1A64, \h39EC),
     U64(\h90BE, \hFFFA, \h2363, \h1E28), U64(\hA450, \h6CEB, \hDE82, \hBDE9),
     U64(\hBEF9, \hA3F7, \hB2C6, \h7915), U64(\hC671, \h78F2, \hE372, \h532B),
     U64(\h0000, \h0000, \h0000, \h0001), U64(\h0000, \h0000, \h0000, \h8082),
     U64(\h8000, \h0000, \h0000, \h808A), U64(\h8000, \h0000, \h8000, \h8000),
     U64(\h0000, \h0000, \h0000, \h808B), U64(\h0000, \h0000, \h8000, \h0001),
     U64(\h8000, \h0000, \h8000, \h8081), U64(\h8000, \h0000, \h0000, \h8009),
     U64(\h0000, \h0000, \h0000, \h008A), U64(\h0000, \h0000, \h0000, \h0088),
     U64(\h0000, \h0000, \h8000, \h8009), U64(\h0000, \h0000, \h8000, \h000A),
     U64(\h0000, \h0000, \h8000, \h808B), U64(\h8000, \h0000, \h0000, \h008B),
     U64(\h8000, \h0000, \h0000, \h8089), U64(\h8000, \h0000, \h0000, \h8003),
     U64(\h8000, \h0000, \h0000, \h8002), U64(\h8000, \h0000, \h0000, \h0080),
     U64(\h0000, \h0000, \h0000, \h800A), U64(\h8000, \h0000, \h8000, \h000A),
     U64(\h8000, \h0000, \h0000, \h8080), U64(\h8000, \h0000, \h8000, \h8008),
     U64(\h6A09, \hE667, \hF2BD, \hC948), U64(\h1324, \h3546, \h5768, \h798A),
     U64(\hC0D1, \hE2F3, \hA4B5, \h9687), U64(\h7869, \h5A4B, \h3C2D, \h1E0F),
     U64(\hA96F, \h30BC, \h1631, \h38AA), U64(\hCBF2, \h9CE4, \h8422, \h2325),
     U64(\h6C79, \h6765, \h6E65, \h7261), U64(\h646F, \h7261, \h6E64, \h6F6D),
     U64(\hCA27, \h3ECE, \hEA26, \h619C), U64(\hF484, \h6468, \hE8DF, \h0C0B),
     U64(\h1869, \h5A08, \h7A5C, \h0593), U64(\h23B4, \h1638, \h005C, \h0F2D),
     U64(\h2D49, \h1CBF, \hB1D3, \hA637), U64(\h324B, \h42C1, \h85E5, \h8F9E),
     U64(\h3A10, \h10A7, \hB8D6, \h7679), U64(\h3F73, \hC4AF, \h1851, \h8865),
     U64(\h5A0D, \hEEEF, \hF85E, \h0B80), U64(\h5E9D, \h7A75, \hE2F1, \hB5CB),
     U64(\h667F, \h9CFB, \h7B3C, \h9D3F), U64(\h6C78, \hE7A5, \h948A, \h265C),
     U64(\h6C6E, \h7E9A, \h7C5D, \h3A1F), U64(\h7A0D, \h6C2D, \h0B8F, \h5E3A),
     U64(\h7B0C, \h9E5A, \h6D3F, \h1D8C), U64(\h8A0F, \h5E3C, \h7D1B, \h9A6F),
     U64(\h8C2D, \h5E3F, \h7A1B, \h9C6D), U64(\h9A0B, \h8C7D, \h6E5F, \h4A3B),
     U64(\hE38D, \hEE4D, \hB0FB, \h0E4E), U64(\hB1C2, \hD3E4, \hF506, \h1728),
     U64(\hC1D2, \hE3F4, \h0516, \h2738), U64(\hD1E2, \hF304, \h1526, \h3748),
     U64(\hE1F2, \h0314, \h2536, \h4758), U64(\hF102, \h1324, \h3546, \h5768),
     U64(\hE580, \h01F9, \hE5CF, \hFA7E), U64(\hD1AA, \h379F, \h9C4B, \h9809),
     U64(\h993A, \h2F8B, \h88C1, \hB63F), U64(\h579A, \h0115, \h5E6D, \h4196),
     U64(\hBB0F, \hC70B, \h1266, \hB3F1), U64(\hDE50, \h9C2F, \h03B0, \h1495),
     U64(\h8859, \h4851, \h25BC, \h297C), U64(\h102B, \h3656, \h0F6E, \h68E6),
     U64(\hE2D0, \hC0A8, \h96B8, \h7C6E), U64(\h4F5E, \h6A7B, \h8C9D, \hAFB1)
  >>

\* ROUND_CONSTANTS[i & (ROUND_CONSTANTS_SIZE-1)]
RC(i) == ROUND_CONSTANTS_TABLE[(i % ROUND_CONSTANTS_SIZE) + 1]

\* A small non-negative int (a round number) converted to uint64_t
ToU64(n) ==
  <<n % 256, (n \div 256) % 256, (n \div 65536) % 256, n \div 16777216, 0, 0, 0, 0>>

(* -------------------------- algorithm.h ------------------------------- *)

K_GAMMA_X == U64(\h8000, \h0000, \h8000, \h8009)
K_GAMMA_Y == U64(\h8000, \h0000, \h0000, \h8081)

\* r = rotr64(r, 17) ^ rotl64(r, 23)
gamma_rotate(r) == XOR(rotr64(r, 17), rotl64(r, 23))

\* r ^= (r << 19) | (r >> 45)
gamma_self_mix(r) == XOR(r, OR(SHL(r, 19), SHR(r, 45)))

gamma_mix(x, y, z, round) ==
  LET r0 == XOR(XOR(x, y), z)
      r1 == ADD(r0, XOR(XOR(rotl64(x, 13), rotr64(y, 7)), rotl64(z, 29)))
      r2 == XOR(r1, OR(AND(x, y), AND(z, NOT(x))))
      r3 == ADD(r2, round)
      r5 == gamma_self_mix(gamma_rotate(r3))
  IN  ADD(r5, XOR(MUL(x, K_GAMMA_X), MUL(y, K_GAMMA_Y)))

(* ------------------------- XzalgoChain.h ------------------------------ *)

K_PB_B == U64(\h6A09, \hE667, \hBB67, \hAE85)
K_PB_C == U64(\h3C6E, \hF372, \hA54F, \hF53A)
K_PB_D == U64(\h510E, \h527F, \h9B05, \h688C)
K_PB_MUL == U64(\h1F83, \hD9AB, \h5BE0, \hCD19)

\* An iteration that takes d from block[10], whatever i
process_block_word_short(h, block, i) ==
  LET a1 == rotl64(ADD(h[i + 1], XOR(block[i + 1], K_PB_B)), 13)
      a2 == rotl64(XOR(a1, ADD(block[i + 5 + 1], K_PB_C)), 29)
      a3 == rotl64(ADD(a2, XOR(block[10 + 1], K_PB_D)), 37)
      a4 == XOR(a3, h[((i + 1) % 5) + 1])
      a5 == rotl64(ADD(a4, h[((i + 4) % 5) + 1]), 17)
      a8 == MUL(xor_shl(xor_shr(a5, 32), 21), K_PB_MUL)
  IN  xor_shl(xor_shr(a8, 29), 17)

\* One iteration of the loop of process_block: the new h[i]
process_block_word(h, block, i) ==
  LET a1 == rotl64(ADD(h[i + 1], XOR(block[i + 1], K_PB_B)), 13)
      a2 == rotl64(XOR(a1, ADD(block[i + 5 + 1], K_PB_C)), 29)
      a3 == rotl64(ADD(a2, XOR(block[i + 10 + 1], K_PB_D)), 37)
      a4 == XOR(a3, h[((i + 1) % 5) + 1])
      a5 == rotl64(ADD(a4, h[((i + 4) % 5) + 1]), 17)
      a8 == MUL(xor_shl(xor_shr(a5, 32), 21), K_PB_MUL)
  IN  xor_shl(xor_shr(a8, 29), 17)

\* The iterations i .. 4 of the loop of process_block: h[i] is replaced in
\* ascending i, so later iterations read the words already replaced
RECURSIVE process_block_from(_, _, _)
process_block_from(h, block, i) ==
  IF i = 5 THEN h
  ELSE After(h, process_block_from([h EXCEPT ![i + 1] = process_block_word(h, block, i)],
                                   block, i + 1))

\* A compression whose first word of d is block[10] ^ block[15]
process_block_folded(h, block) ==
  process_block_from(h, [block EXCEPT ![11] = XOR(@, block[16])], 0)

process_block(h, block) == process_block_from(h, block, 0)

SALT_SEED_TABLE ==
  <<
     U64(\h6A09, \hE667, \hF3BC, \hC908), U64(\hBB67, \hAE85, \h84CA, \hA73B),
     U64(\h3C6E, \hF372, \hFE94, \hF82B), U64(\hA54F, \hF53A, \h5F1D, \h36F1),
     U64(\h510E, \h527F, \hADE6, \h82D1), U64(\h9B05, \h688C, \h2B3E, \h6C1F),
     U64(\h1F83, \hD9AB, \hFB41, \hBD6B), U64(\h5BE0, \hCD19, \h137E, \h2179),
     U64(\hCBBB, \h9D5D, \hC105, \h9ED8), U64(\h629A, \h292A, \h367C, \hD507),
     U64(\h9159, \h015A, \h3070, \hDD17), U64(\h152F, \hECD8, \hF70E, \h5939),
     U64(\h6733, \h2667, \hFFC0, \h0B31), U64(\h8EB4, \h4A87, \h6858, \h1511),
     U64(\hDB0C, \h2E0D, \h64F9, \h8FA7), U64(\h47B5, \h481D, \hBEFA, \h4FA4),
     U64(\h243F, \h6A88, \h85A3, \h08D3), U64(\h1319, \h8A2E, \h0370, \h7344),
     U64(\hA409, \h3822, \h299F, \h31D0), U64(\h082E, \hFA98, \hEC4E, \h6C89),
     U64(\h4528, \h21E6, \h38D0, \h1377), U64(\hBE54, \h66CF, \h34E9, \h0C6C),
     U64(\hC0AC, \h29B7, \hC97C, \h50DD), U64(\h3F84, \hD5B5, \hB547, \h0917),
     U64(\h8367, \hE295, \hD4C1, \hB8A3), U64(\hF4E6, \hD2C5, \hB1A7, \h9860),
     U64(\h2B5D, \h7C9F, \h8E4A, \h3617), U64(\hC8D4, \hE2F6, \hB9A3, \h1750),
     U64(\h7E3F, \h9A2C, \h5D8B, \h6419), U64(\hA6D2, \hF8C4, \hE1B7, \h9530),
     U64(\h4B7F, \h9E2D, \h5C8A, \h6318), U64(\hD5F2, \hE7C4, \hB9A1, \h6830)
  >>

K_SALT_COUNTER == U64(\h7C5F, \h8E4D, \h3B2A, \h6917)
K_SALT_M1 == U64(\h3A8F, \h7E6D, \h5C4B, \h2918)
K_SALT_M2 == U64(\h276D, \h9C5F, \h8E3B, \h41A2)

\* uint64_t s[32] = {...}; for (i = 0; i < 5; i++) s[i] ^= input[i]
salt_seed(input) ==
  <<XOR(SALT_SEED_TABLE[1], input[1]), XOR(SALT_SEED_TABLE[2], input[2]),
    XOR(SALT_SEED_TABLE[3], input[3]), XOR(SALT_SEED_TABLE[4], input[4]),
    XOR(SALT_SEED_TABLE[5], input[5])>> \o SubSeq(SALT_SEED_TABLE, 6, 32)

\* An iteration that reads word (j + 3) mod 32 of the whole array
salt_step_wide(s, counter, round, j) ==
  [s EXCEPT ![j + 1] =
     ADD(XOR(s[j + 1], XOR(rotl64(s[j + 1], (j*7 + round*3) % 64),
                           rotr64(s[((j + 3) % 32) + 1], (j*5 + round*2) % 64))),
         counter)]

\* One iteration of the inner loop of generate_salt: word j of round round
salt_step(s, counter, round, j) ==
  [s EXCEPT ![j + 1] =
     ADD(XOR(s[j + 1], XOR(rotl64(s[j + 1], (j*7 + round*3) % 64),
                           rotr64(s[((j + 3) % 8) + 1], (j*5 + round*2) % 64))),
         counter)]

\* The n >= 1 iterations j .. j + n - 1 of the inner loop for (j = 0; j < 32; j++),
\* run as the first n \div 2 of them and then the rest
RECURSIVE salt_inner(_, _, _, _, _)
salt_inner(s, counter, round, j, n) ==
  After(s,
    IF n = 1 THEN salt_step(s, counter, round, j)
    ELSE salt_inner(salt_inner(s, counter, round, j, n \div 2),
                    counter, round, j + (n \div 2), n - (n \div 2)))

\* The n >= 1 rounds round .. round + n - 1 of the outer loop, run as the
\* first n \div 2 of them and then the rest, on the pair sc of s and counter;
\* counter += K_SALT_COUNTER after each round
RECURSIVE salt_rounds(_, _, _)
salt_rounds(sc, round, n) ==
  After(sc,
    IF n = 1
    THEN <<salt_inner(sc[1], sc[2], round, 0, 32), ADD(sc[2], K_SALT_COUNTER)>>
    ELSE salt_rounds(salt_rounds(sc, round, n \div 2),
                     round + (n \div 2), n - (n \div 2)))

\* The final reduction: word i of the salt
salt_word(s, i) ==
  MUL(xor_shr(MUL(xor_shr(XOR(s[i + 1], s[((i + 3) % 8) + 1]), 31), K_SALT_M1), 29),
      K_SALT_M2)

salt_reduce(s) ==
  <<salt_word(s, 0), salt_word(s, 1), salt_word(s, 2), salt_word(s, 3), salt_word(s, 4)>>

\* The array s after the 7 rounds, the counter starting at 0
salt_mixed(s) == salt_rounds(<<s, ZERO64>>, 0, 7)[1]

\* The 7 rounds and the final reduction on the array s
salt_from(s) == salt_reduce(salt_mixed(s))

generate_salt(input) == salt_from(salt_seed(input))

K_GOLDEN == U64(\h9E37, \h79B9, \h7F4A, \h7C15)
K_SPLITMIX1 == U64(\hBF58, \h476D, \h1CE4, \hE5B9)
K_SPLITMIX2 == U64(\h94D0, \h49BB, \h1331, \h11EB)

\* x += rotl64(x, n)
add_rotl(x, n) == ADD(x, rotl64(x, n))

extra_mix(x) ==
  LET x2 == MUL(xor_shr(x, 27), K_GOLDEN)
      x4 == MUL(xor_shr(x2, 31), K_SPLITMIX1)
  IN  add_rotl(xor_shr(x4, 29), 41)
(* ----------------------- algorithm_scalar.h --------------------------- *)
(* A vec256_t is the tuple of its four lanes: lane[i] is v[i + 1].         *)

\* (v << r) | (v >> (64 - r)), for 0 < r < 64
rotl64_scalar(v, r) == OR(SHL(v, r), SHR(v, 64 - r))

\* (v >> r) | (v << (64 - r)), for 0 < r < 64
rotr64_scalar(v, r) == OR(SHR(v, r), SHL(v, 64 - r))

\* The vector whose lane i is f[i + 1], for a loop over the four lanes
Lanes(f) == <<f[1], f[2], f[3], f[4]>>

vec256_set(l0, l1, l2, l3) == <<l0, l1, l2, l3>>

vec256_set1(val) == <<val, val, val, val>>

vec256_add(a, b) == Lanes([i \in 1..4 |-> ADD(a[i], b[i])])

vec256_xor(a, b) == Lanes([i \in 1..4 |-> XOR(a[i], b[i])])

vec256_rotl(v, r) == Lanes([i \in 1..4 |-> rotl64_scalar(v[i], r)])

vec256_rotr(v, r) == Lanes([i \in 1..4 |-> rotr64_scalar(v[i], r)])

\* A permute that reads the pattern from its high bits down: destination
\* lane d takes source lane (imm >> (6 - 2d)) & 3
vec256_permute_reversed(v, imm) ==
  <<v[((imm \div 64) % 4) + 1], v[((imm \div 16) % 4) + 1],
    v[((imm \div 4) % 4) + 1], v[(imm % 4) + 1]>>

\* Destination lane d takes source lane (imm >> 2d) & 3
vec256_permute(v, imm) ==
  <<v[(imm % 4) + 1], v[((imm \div 4) % 4) + 1],
    v[((imm \div 16) % 4) + 1], v[((imm \div 64) % 4) + 1]>>

vec256_mul_const(v, c) == Lanes([i \in 1..4 |-> MUL(v[i], c)])

\* x ^ rotl(x, 17), the last two statements of mix_lanes_vector
mix_lanes_rotated(x) == After(x, vec256_xor(x, vec256_rotl(x, 17)))

\* p0 ^ p1 where p1 = permute(p0, 0xB1)
mix_lanes_pair(p0) == After(p0, vec256_xor(p0, vec256_permute(p0, 177)))

\* A lane mix without the xor of the two permuted vectors
mix_lanes_vector_unpaired(v) == mix_lanes_rotated(vec256_permute(v, 78))

mix_lanes_vector(v) == mix_lanes_rotated(mix_lanes_pair(vec256_permute(v, 78)))

K_ARX == U64(\h8000, \h0000, \h0000, \h808A)

\* v = vec256_add(v, vec256_rotl(v, r1))
arx_add_rotl(v, r1) == After(v, vec256_add(v, vec256_rotl(v, r1)))

\* v = vec256_xor(v, vec256_rotr(v, r2))
arx_xor_rotr(v, r2) == After(v, vec256_xor(v, vec256_rotr(v, r2)))

arx_mix_vector(v, salt, rc, r1, r2) ==
  vec256_mul_const(
    mix_lanes_vector(
      arx_xor_rotr(arx_add_rotl(vec256_xor(vec256_add(v, salt), rc), r1), r2)),
    K_ARX)

K_HX1 == U64(\h0000, \h0000, \h0000, \h0088)
K_HX2 == U64(\h8000, \h0000, \h0000, \h8089)
K_HX3 == U64(\h8000, \h0000, \h8000, \h8081)

\* result = rotr(result, 17) ^ rotl(result, 43), with the back-end's rotations
hxor_rotate(r, ROTR(_, _), ROTL_(_, _)) == XOR(ROTR(r, 17), ROTL_(r, 43))

\* The diffusion sequence that ends every horizontal reduction
hxor_diffuse(result, ROTR(_, _), ROTL_(_, _)) ==
  LET r2 == MUL(xor_shr(result, 31), K_HX1)
      r4 == MUL(xor_shr(r2, 29), K_HX2)
      r7 == MUL(hxor_rotate(xor_shr(r4, 32), ROTR, ROTL_), K_HX3)
  IN  After(result, xor_shr(r7, 27))

\* v ^ permute(v, imm)
xor_permute(v, imm) == After(v, vec256_xor(v, vec256_permute(v, imm)))

\* lane[0] ^ lane[1] ^ lane[2] ^ lane[3]
xor_lanes(v) == XOR(XOR(XOR(v[1], v[2]), v[3]), v[4])

horizontal_xor_vector(v) ==
  hxor_diffuse(
    xor_lanes(xor_permute(xor_permute(xor_permute(mix_lanes_vector(v), 78), 78), 177)),
    rotr64_scalar, rotl64_scalar)

\* The feedback of the mixed word into the words [9] at i0, i1, i2, i3
cross_block_feed(input, i0, i1, i2, i3, mix, ROTR(_, _), ROTL_(_, _)) ==
  [input EXCEPT ![i0] = XOR(@, mix),
                ![i1] = XOR(@, ROTR(mix, 11)),
                ![i2] = XOR(@, ROTL_(mix, 23)),
                ![i3] = XOR(@, xor_shr(mix, 31))]

\* The cross-block mixing of the four words [9] of a full group of 4 blocks
\* at blk; ROTR and ROTL_ are the rotations the back-end uses
cross_block_mix(input, blk, ROTR(_, _), ROTL_(_, _)) ==
  LET i0 == (blk + 0) * 10 + 9 + 1
      i1 == (blk + 1) * 10 + 9 + 1
      i2 == (blk + 2) * 10 + 9 + 1
      i3 == (blk + 3) * 10 + 9 + 1
      m0 == XOR(XOR(XOR(input[i0], input[i1]), input[i2]), input[i3])
  IN  cross_block_feed(input, i0, i1, i2, i3,
                       MUL(hxor_rotate(m0, ROTR, ROTL_), K_GOLDEN), ROTR, ROTL_)

\* A test that holds only when a further block follows the group
cross_block_applies_late(num_blocks, blk) == blk + 4 < num_blocks

\* if (blk + 3 < num_blocks): the group at blk is a full group of 4 blocks
cross_block_applies(num_blocks, blk) == blk + 3 < num_blocks

\* Word k of the block in[i] of the group at blk, or 0 when in[i] is NULL
load_word(input, num_blocks, blk, i, k) ==
  IF blk + i < num_blocks THEN input[(blk + i) * 10 + k + 1] ELSE ZERO64

\* The vector of the words k of in[0], in[1], in[2], in[3]
load_vec(input, num_blocks, blk, k) ==
  Lanes([i \in 1..4 |-> load_word(input, num_blocks, blk, i - 1, k)])

\* The round constants round_base + j .. round_base + j + 3
rc_vec(round_base, j) == Lanes([i \in 1..4 |-> RC(round_base + j + i - 1)])

\* acc_i: the lanes imm of a, b, c xored
acc_vec(a, b, c, imm) ==
  vec256_xor(vec256_xor(vec256_permute(a, imm), vec256_permute(b, imm)),
             vec256_permute(c, imm))

\* A store that also writes word 2 of the block
store_word_wide(old, k, a0, a1, a2, lo, w) ==
  CASE k = 0 -> a0[lo + 1]
    [] k = 1 -> a0[lo + 2]
    [] k = 2 -> a0[lo + 1]
    [] k = 4 -> a1[lo + 1]
    [] k = 5 -> a1[lo + 2]
    [] k = 8 -> a2[lo + 1]
    [] k = 9 -> w
    [] OTHER -> old

\* Word k of a block after the stores of its if (in[i]) { .. }: the words 0,
\* 1 take lanes lo, lo + 1 of a0, the words 4, 5 those of a1, word 8 lane lo
\* of a2, word 9 the reduction w; no store names the words 2, 3, 6, 7, which
\* keep what they held
store_word(old, k, a0, a1, a2, lo, w) ==
  CASE k = 0 -> a0[lo + 1]
    [] k = 1 -> a0[lo + 2]
    [] k = 4 -> a1[lo + 1]
    [] k = 5 -> a1[lo + 2]
    [] k = 8 -> a2[lo + 1]
    [] k = 9 -> w
    [] OTHER -> old

\* The stores of one group: block in[0] takes lanes 0,1 of v0, v1 and lane 0
\* of v2, block in[1] their lanes 2,3 and 2, blocks in[2] and in[3] the same
\* lanes of v0l, v1l, v2l; word 9 of in[i] takes w9[i + 1]; a NULL in[i]
\* stores nothing
store_group(input, num_blocks, blk, v0, v0l, v1, v1l, v2, v2l, w9) ==
  [p \in 1..Len(input) |->
     LET i == ((p - 1) \div 10) - blk
         k == (p - 1) % 10
     IN  IF i < 0 \/ i > 3 \/ blk + i >= num_blocks
         THEN input[p]
         ELSE store_word(input[p], k,
                         IF i < 2 THEN v0 ELSE v0l,
                         IF i < 2 THEN v1 ELSE v1l,
                         IF i < 2 THEN v2 ELSE v2l,
                         IF i % 2 = 0 THEN 0 ELSE 2,
                         w9[i + 1])]

\* The words in[0][9] .. in[3][9]: the horizontal reductions of acc0 .. acc3
group_w9(v0, v0l, v1, v1l, v2, v2l, HXOR(_)) ==
  <<HXOR(acc_vec(v0, v1, v2, 0)),       \* 0x00
    HXOR(acc_vec(v0, v1, v2, 85)),      \* 0x55
    HXOR(acc_vec(v0l, v1l, v2l, 170)),  \* 0xAA
    HXOR(acc_vec(v0l, v1l, v2l, 255))>> \* 0xFF

\* The group once its blocks are stored: the cross-block mixing of a full group
group_cross(stored, num_blocks, blk, ROTR(_, _), ROTL_(_, _)) ==
  IF cross_block_applies(num_blocks, blk)
  THEN After(stored, cross_block_mix(stored, blk, ROTR, ROTL_))
  ELSE stored

\* The group from its six mixed vectors on
group_store(input, num_blocks, blk, v0, v0l, v1, v1l, v2, v2l,
            HXOR(_), ROTR(_, _), ROTL_(_, _)) ==
  After(<<v0, v0l, v1, v1l, v2, v2l>>,
    group_cross(
      store_group(input, num_blocks, blk, v0, v0l, v1, v1l, v2, v2l,
                  group_w9(v0, v0l, v1, v1l, v2, v2l, HXOR)),
      num_blocks, blk, ROTR, ROTL_))

\* One of the six vectors of a group: the words k of its blocks, through the
\* back-end's arx mix with the round constants from j on, then its lane mix
group_vec(input, salt, round_base, num_blocks, blk, k, j, r1, r2,
          ARX(_, _, _, _, _), MIXL(_)) ==
  MIXL(ARX(load_vec(input, num_blocks, blk, k), salt, rc_vec(round_base, j), r1, r2))

\* One iteration of the loop for (blk = 0; blk < num_blocks; blk += 4) that
\* the three executors share: the group of up to 4 blocks at blk. ARX, MIXL,
\* HXOR, ROTR and ROTL_ are the executor's own arx mix, lane mix, horizontal
\* reduction and rotations.
little_box_group(input, salt, round_base, num_blocks, blk,
                 ARX(_, _, _, _, _), MIXL(_), HXOR(_), ROTR(_, _), ROTL_(_, _)) ==
  group_store(input, num_blocks, blk,
    group_vec(input, salt, round_base, num_blocks, blk, 1, 0, 7, 13, ARX, MIXL),   \* v0
    group_vec(input, salt, round_base, num_blocks, blk, 0, 0, 7, 13, ARX, MIXL),   \* v0l
    group_vec(input, salt, round_base, num_blocks, blk, 5, 4, 11, 17, ARX, MIXL),  \* v1
    group_vec(input, salt, round_base, num_blocks, blk, 4, 4, 11, 17, ARX, MIXL),  \* v1l
    group_vec(input, salt, round_base, num_blocks, blk, 9, 8, 19, 23, ARX, MIXL),  \* v2
    group_vec(input, salt, round_base, num_blocks, blk, 8, 8, 19, 23, ARX, MIXL),  \* v2l
    HXOR, ROTR, ROTL_)

\* The place of the calling thread in the OpenMP runtime: omp_get_thread_num()
\* and omp_get_num_threads() in the innermost enclosing parallel region. A
\* build without OpenMP ignores the pragmas, and outside any parallel region
\* the team is the calling thread alone: both are OMP_ALONE.
OMP_ALONE == [thread_num |-> 0, num_threads |-> 1]

\* #pragma omp for schedule(static) on a loop of n iterations: TRUE when the
\* calling thread runs iteration k. The directive is orphaned, so it shares
\* the iterations among the team of the caller's parallel region: contiguous
\* chunks of n \div num_threads iterations, the first n % num_threads threads
\* taking one more (how libgomp and libomp divide a static loop).
omp_for_static(omp, k, n) ==
  LET q == n \div omp.num_threads
      tt == n % omp.num_threads
      s0 == IF omp.thread_num < tt THEN (q + 1) * omp.thread_num
            ELSE q * omp.thread_num + tt
      e0 == s0 + (IF omp.thread_num < tt THEN q + 1 ELSE q)
  IN  k >= s0 /\ k < e0

\* A loop that runs its first iteration only
omp_for_iteration_first(input, group, num_blocks, blk, omp) ==
  IF blk = 0 THEN group ELSE input

\* The iteration at blk of for (blk = 0; blk < num_blocks; blk += 4) under
\* the pragma: the group when the calling thread runs it, else nothing
omp_for_iteration(input, group, num_blocks, blk, omp) ==
  IF omp_for_static(omp, blk \div 4, (num_blocks + 3) \div 4) THEN group ELSE input

\* The groups of one call of an executor that go through the cross-block
\* mixing, each named by its first block: those of the iterations the calling
\* thread runs for which the if holds
executor_mixed(num_blocks, omp) ==
  {blk \in 0..(num_blocks - 1) :
     /\ blk % 4 = 0
     /\ omp_for_static(omp, blk \div 4, (num_blocks + 3) \div 4)
     /\ cross_block_applies(num_blocks, blk)}

\* The loop of little_box_execute_scalar from blk on
RECURSIVE little_box_scalar_loop(_, _, _, _, _, _)
little_box_scalar_loop(input, salt_scalar, round_base, num_blocks, blk, omp) ==
  IF blk >= num_blocks THEN input
  ELSE After(input,
         little_box_scalar_loop(
           omp_for_iteration(input,
             little_box_group(input, vec256_set1(salt_scalar), round_base, num_blocks, blk,
                              arx_mix_vector, mix_lanes_vector, horizontal_xor_vector,
                              rotr64_scalar, rotl64_scalar),
             num_blocks, blk, omp),
           salt_scalar, round_base, num_blocks, blk + 4, omp))

little_box_execute_scalar(input, salt_scalar, round_base, num_blocks, omp) ==
  little_box_scalar_loop(input, salt_scalar, round_base, num_blocks, 0, omp)
(* ------------------------ algorithm_simd.h: AVX2 ----------------------- *)
(* A __m256i is the tuple of its four 64-bit lanes, lane 0 first; a        *)
(* __m128i is the tuple of its 16 bytes, lowest first.                     *)

\* _mm256_slli_epi64 and _mm256_srli_epi64: every lane shifted, zeros in
mm256_slli_epi64(v, r) == Lanes([i \in 1..4 |-> SHL(v[i], r)])

mm256_srli_epi64(v, r) == Lanes([i \in 1..4 |-> SHR(v[i], r)])

mm256_or_si256(a, b) == Lanes([i \in 1..4 |-> OR(a[i], b[i])])

rotl64x4(v, r) == mm256_or_si256(mm256_slli_epi64(v, r), mm256_srli_epi64(v, 64 - r))

rotr64x4(v, r) == mm256_or_si256(mm256_srli_epi64(v, r), mm256_slli_epi64(v, 64 - r))

\* v ^ ((v << 17) | (v >> 47)), the last two statements of mix_lanes
mix_lanes_rot17(v) ==
  After(v, vec256_xor(v, mm256_or_si256(mm256_slli_epi64(v, 17), mm256_srli_epi64(v, 47))))

\* A mix_lanes without its two permutations
mix_lanes_unpermuted(v) == mix_lanes_rot17(v)

mix_lanes(v) ==
  mix_lanes_rot17(xor_permute(vec256_permute(v, 78),   \* _MM_SHUFFLE(1, 0, 3, 2)
                              177))                    \* _MM_SHUFFLE(2, 3, 0, 1)

MASK32 == U64(\h0000, \h0000, \hFFFF, \hFFFF)

\* _mm256_mul_epu32: the 64-bit product of the low 32 bits of each lane
mm256_mul_epu32(a, b) ==
  Lanes([i \in 1..4 |-> MUL(AND(a[i], MASK32), AND(b[i], MASK32))])

mullo64(a, b) ==
  After(<<a, b>>,
    vec256_add(mm256_mul_epu32(a, b),
               mm256_slli_epi64(
                 mm256_mul_epu32(mm256_srli_epi64(a, 32), mm256_srli_epi64(b, 32)), 32)))

\* v = add(v, rotl64x4(v, r1))
arx_add_rotl64x4(v, r1) == After(v, vec256_add(v, rotl64x4(v, r1)))

\* v = xor(v, rotr64x4(v, r2))
arx_xor_rotr64x4(v, r2) == After(v, vec256_xor(v, rotr64x4(v, r2)))

arx_mix(v, salt, rc, r1, r2) ==
  mullo64(
    mix_lanes(
      arx_xor_rotr64x4(arx_add_rotl64x4(vec256_xor(vec256_add(v, salt), rc), r1), r2)),
    vec256_set1(K_ARX))

\* _mm_srli_si128 and _mm_slli_si128 shift the 128-bit register by n bytes
mm_srli_si128(x, n) == [i \in 1..16 |-> IF i + n <= 16 THEN x[i + n] ELSE 0]

mm_slli_si128(x, n) == [i \in 1..16 |-> IF i - n >= 1 THEN x[i - n] ELSE 0]

mm_xor_si128(x, y) == [i \in 1..16 |-> XorTab[x[i]][y[i]]]

\* _mm256_castsi256_si128 is lanes 0,1 and _mm256_extracti128_si256(v, 1)
\* lanes 2,3
m128_of(l0, l1) == l0 \o l1

mm_cvtsi128_si64(x) == <<x[1], x[2], x[3], x[4], x[5], x[6], x[7], x[8]>>

\* x ^ (x >> 64 bits), then x ^ (x << 32 bits), on the 128-bit register
hxor_fold128(x) == mm_xor_si128(x, mm_srli_si128(x, 8))
hxor_spread128(x) == mm_xor_si128(x, mm_slli_si128(x, 4))

\* The low and the high 128 bits of v xored
hxor_halves(v) == After(v, mm_xor_si128(m128_of(v[1], v[2]), m128_of(v[3], v[4])))

horizontal_xor256(v) ==
  hxor_diffuse(
    mm_cvtsi128_si64(
      hxor_spread128(hxor_fold128(hxor_halves(
        xor_permute(xor_permute(xor_permute(mix_lanes(v), 78), 78), 177))))),
    rotr64, rotl64)

RECURSIVE little_box_avx2_loop(_, _, _, _, _, _)
little_box_avx2_loop(input, salt_scalar, round_base, num_blocks, blk, omp) ==
  IF blk >= num_blocks THEN input
  ELSE After(input,
         little_box_avx2_loop(
           omp_for_iteration(input,
             little_box_group(input, vec256_set1(salt_scalar), round_base, num_blocks, blk,
                              arx_mix, mix_lanes, horizontal_xor256, rotr64, rotl64),
             num_blocks, blk, omp),
           salt_scalar, round_base, num_blocks, blk + 4, omp))

little_box_execute_simd_avx2(input, salt_scalar, round_base, num_blocks, omp) ==
  little_box_avx2_loop(input, salt_scalar, round_base, num_blocks, 0, omp)

(* ------------------------ algorithm_simd.h: NEON ----------------------- *)
(* A neon256_t is the tuple of its four lanes: lo holds lanes 0,1 and hi   *)
(* lanes 2,3.                                                              *)

\* vshlq_u64 on one lane: a left shift by n, a right shift by -n when n < 0
vshl_u64(v, n) == IF n >= 0 THEN SHL(v, n) ELSE SHR(v, 0 - n)

neon_rotl64(v, r) == OR(vshl_u64(v, r), vshl_u64(v, r - 64))

neon_rotr64(v, r) == OR(vshl_u64(v, 0 - r), vshl_u64(v, 64 - r))

n256_set_epi64x(x3, x2, x1, x0) == <<x0, x1, x2, x3>>

n256_set1(x) == <<x, x, x, x>>

n256_xor(a, b) == Lanes([i \in 1..4 |-> XOR(a[i], b[i])])

n256_add(a, b) == Lanes([i \in 1..4 |-> ADD(a[i], b[i])])

n256_rotl(v, r) == Lanes([i \in 1..4 |-> neon_rotl64(v[i], r)])

n256_rotr(v, r) == Lanes([i \in 1..4 |-> neon_rotr64(v[i], r)])

n256_permute(v, imm) ==
  n256_set_epi64x(v[((imm \div 64) % 4) + 1], v[((imm \div 16) % 4) + 1],
                  v[((imm \div 4) % 4) + 1], v[(imm % 4) + 1])

\* x ^ rotl(x, 17), the last two statements of n256_mix_lanes
n256_mix_rotated(x) == After(x, n256_xor(x, n256_rotl(x, 17)))

\* p0 ^ p1 where p1 = permute(p0, 0xB1)
n256_mix_pair(p0) == After(p0, n256_xor(p0, n256_permute(p0, 177)))

n256_mix_lanes(v) == n256_mix_rotated(n256_mix_pair(n256_permute(v, 78)))

n256_mul64(v, c) == n256_set_epi64x(MUL(v[4], c), MUL(v[3], c), MUL(v[2], c), MUL(v[1], c))

\* v = n256_add(v, n256_rotl(v, r1))
n256_add_rotl(v, r1) == After(v, n256_add(v, n256_rotl(v, r1)))

\* v = n256_xor(v, n256_rotr(v, r2))
n256_xor_rotr(v, r2) == After(v, n256_xor(v, n256_rotr(v, r2)))

n256_arx_mix(v, salt, rc, r1, r2) ==
  n256_mul64(
    n256_mix_lanes(
      n256_xor_rotr(n256_add_rotl(n256_xor(n256_add(v, salt), rc), r1), r2)),
    K_ARX)

\* v ^ permute(v, imm)
n256_xor_permute(v, imm) == After(v, n256_xor(v, n256_permute(v, imm)))

n256_horizontal_xor(v) ==
  hxor_diffuse(
    xor_lanes(n256_xor_permute(n256_xor_permute(n256_mix_lanes(v), 78), 177)),
    rotr64, rotl64)

RECURSIVE little_box_neon_loop(_, _, _, _, _, _)
little_box_neon_loop(input, salt_scalar, round_base, num_blocks, blk, omp) ==
  IF blk >= num_blocks THEN input
  ELSE After(input,
         little_box_neon_loop(
           omp_for_iteration(input,
             little_box_group(input, n256_set1(salt_scalar), round_base, num_blocks, blk,
                              n256_arx_mix, n256_mix_lanes, n256_horizontal_xor,
                              rotr64, rotl64),
             num_blocks, blk, omp),
           salt_scalar, round_base, num_blocks, blk + 4, omp))

little_box_execute_simd_neon(input, salt_scalar, round_base, num_blocks, omp) ==
  little_box_neon_loop(input, salt_scalar, round_base, num_blocks, 0, omp)
(* ------------------- algorithm_simd.h: the wrapper -------------------- *)
(* A host is [detected, built, bigEndian]: the SIMD type the run-time      *)
(* detection reports, the SIMD back-end the build compiled in, and the     *)
(* byte order of the machine.                                              *)

\* The arrays f[0..4] and f[0..9] that a loop fills, f[i] being f[i + 1]
Array5(f) == <<f[1], f[2], f[3], f[4], f[5]>>
Array10(f) == <<f[1], f[2], f[3], f[4], f[5], f[6], f[7], f[8], f[9], f[10]>>

\* for (i = 0; i < num_blocks; i++) little_box_execute_scalar(&input[i*10], .., 1),
\* from block i on
RECURSIVE little_box_per_block(_, _, _, _, _, _)
little_box_per_block(input, salt_scalar, round_base, num_blocks, i, omp) ==
  IF i >= num_blocks THEN input
  ELSE After(input,
         little_box_per_block(
           SubSeq(input, 1, i*10)
             \o little_box_execute_scalar(SubSeq(input, i*10 + 1, i*10 + 10),
                                          salt_scalar, round_base, 1, omp)
             \o SubSeq(input, i*10 + 11, Len(input)),
           salt_scalar, round_base, num_blocks, i + 1, omp))

\* The back-end little_box_execute_simd runs: the scalar executor when the
\* flag is set, else the one the build compiled in
simd_backend(forced, built) ==
  IF forced THEN SIMD_NONE
  ELSE IF built = SIMD_AVX2 THEN SIMD_AVX2
  ELSE IF built = SIMD_NEON THEN SIMD_NEON
  ELSE SIMD_NONE

little_box_execute_simd(input, salt_scalar, round_base, num_blocks, forced, built, omp) ==
  CASE simd_backend(forced, built) = SIMD_AVX2 ->
         little_box_execute_simd_avx2(input, salt_scalar, round_base, num_blocks, omp)
    [] simd_backend(forced, built) = SIMD_NEON ->
         little_box_execute_simd_neon(input, salt_scalar, round_base, num_blocks, omp)
    [] OTHER ->
         little_box_per_block(input, salt_scalar, round_base, num_blocks, 0, omp)

\* The groups of one call of little_box_execute_simd that go through the
\* cross-block mixing: those of the one executor call on the SIMD paths, and
\* those of the calls on &input[i * 10] with num_blocks = 1 on the others
simd_mixed(num_blocks, forced, built, omp) ==
  IF simd_backend(forced, built) = SIMD_NONE
  THEN UNION {{i + blk : blk \in executor_mixed(1, omp)} : i \in 0..(num_blocks - 1)}
  ELSE executor_mixed(num_blocks, omp)

(* --------------------------- XzalgoChain.h ---------------------------- *)

little_box_execute_simd_adapter(input, salt_simd, round_base, forced, built, omp) ==
  little_box_execute_simd(input, salt_simd, round_base, 1, forced, built, omp)

\* A scalar adapter that leaves the lane as it is
little_box_execute_scalar_adapter_skipped(input, salt_scalar, round_base, omp) == input

little_box_execute_scalar_adapter(input, salt_scalar, round_base, omp) ==
  little_box_execute_scalar(input, salt_scalar, round_base, 1, omp)

\* The executor big_box_execute selects: TRUE for the SIMD adapter
executor_is_simd(simd_type, built) ==
  \/ simd_type = SIMD_AVX2 /\ built = SIMD_AVX2
  \/ simd_type = SIMD_NEON /\ built = SIMD_NEON

\* little_input of LITTLE box lb: h ^ salt, then h ^ the round constants
little_box_input(h, salt, lb) ==
  Array10([p \in 1..10 |->
             IF p <= 5 THEN XOR(h[p], salt[p]) ELSE XOR(h[p - 5], RC(lb*10 + p - 6))])

\* One iteration of the LITTLE-box loop of big_box_execute: the lane that
\* LITTLE box lb stores in little_box_state[lb]
big_box_little_box(h, salt, lb, round_base, simd_type, forced, built, omp) ==
  IF executor_is_simd(simd_type, built)
  THEN little_box_execute_simd_adapter(little_box_input(h, salt, lb),
                                       XOR(salt[(lb % 5) + 1], RC(lb * 10)),
                                       round_base + lb*10, forced, built, omp)
  ELSE little_box_execute_scalar_adapter(little_box_input(h, salt, lb),
                                         XOR(salt[(lb % 5) + 1], RC(lb * 10)),
                                         round_base + lb*10, omp)

\* The LITTLE-box loop of big_box_execute: little_box_state when it ends
big_box_little_boxes(h, salt, round_base, simd_type, forced, built, omp) ==
  Array10([p \in 1..10 |->
             big_box_little_box(h, salt, p - 1, round_base, simd_type, forced, built,
                                omp)])

\* big_box_state[box_index][i] before the gamma mix: the fold over the lanes
RECURSIVE big_box_fold(_, _, _, _)
big_box_fold(acc, lbs, i, lb) ==
  IF lb = LITTLE_BOX_COUNT THEN acc
  ELSE After(acc,
         big_box_fold(ADD(XOR(acc, lbs[lb + 1][i*2 + 1]), lbs[lb + 1][i*2 + 2]),
                      lbs, i, lb + 1))

\* The aggregation of big_box_execute, from the lanes all LITTLE boxes stored
big_box_aggregate(lbs, salt, box_index, round_base) ==
  Array5([p \in 1..5 |->
            gamma_mix(big_box_fold(ZERO64, lbs, p - 1, 0), salt[p],
                      RC(box_index*100 + p - 1), ToU64(round_base + 1000))])

\* The stores of big_box_execute
big_box_store(ctx, lbs, salt, box_index, round_base) ==
  After(lbs,
  [ctx EXCEPT !.little_box_state = lbs,
              !.big_box_state[box_index + 1] =
                 big_box_aggregate(lbs, salt, box_index, round_base)])

\* big_box_execute once the salt is generated
big_box_salted(ctx, salt, box_index, round_base, forced, built, omp) ==
  After(salt,
    big_box_store(ctx,
                  big_box_little_boxes(ctx.h, salt, round_base, ctx.simd_type, forced, built,
                                       omp),
                  salt, box_index, round_base))

big_box_execute(ctx, box_index, round_base, forced, built, omp) ==
  big_box_salted(ctx, generate_salt(ctx.h), box_index, round_base, forced, built, omp)
H_INIT == <<U64(\hBB67, \hAE85, \h4A7D, \h9E31), U64(\h5BE0, \hCD19, \hB7F3, \hA69C),
            U64(\h6A09, \hE667, \hF2B5, \hC8D3), U64(\h3C6E, \hF372, \hD8B4, \hF1A6),
            U64(\h510E, \h527F, \h4D8C, \h3A92)>>

\* The loop that mixes the initial values, in place, from index i on;
\* h[(i+2)%5] is read after h[i] is replaced, and is another word
RECURSIVE init_mix(_, _)
init_mix(h, i) ==
  IF i = 5 THEN h
  ELSE After(h,
         init_mix([h EXCEPT ![i + 1] =
                     XOR(MUL(rotl64(XOR(@, RC(i * 10)), 17 + i*7), K_GOLDEN),
                         h[((i + 2) % 5) + 1])],
                  i + 1))

ZERO_LITTLE == [lb \in 1..LITTLE_BOX_COUNT |-> [i \in 1..LITTLE_BOX_PROCESSES |-> ZERO64]]
ZERO_BIG == [bb \in 1..BIG_BOX_COUNT |-> [i \in 1..5 |-> ZERO64]]
ZERO_BUFFER == [i \in 1..128 |-> 0]

\* xzalgochain_get_simd_type(): what the run-time detection of the host reports
xzalgochain_get_simd_type(host) == host.detected

xzalgochain_init(forced, host) ==
  LET h0 == [H_INIT EXCEPT ![1] = XOR(@, K_GOLDEN),
                           ![2] = XOR(@, K_SPLITMIX1),
                           ![3] = XOR(@, K_SPLITMIX2)]
  IN  [h |-> init_mix(h0, 0),
       little_box_state |-> ZERO_LITTLE,
       big_box_state |-> ZERO_BIG,
       buffer |-> ZERO_BUFFER,
       buffer_len |-> 0,
       total_bits |-> ZERO64,
       simd_type |-> IF ~forced THEN xzalgochain_get_simd_type(host) ELSE SIMD_NONE]

\* block[i] = bytes_to_u64(mem + off + i*8) for i = 0..15
load_block(mem, off, bigEndian) == [i \in 1..16 |-> bytes_to_u64(mem, off + (i - 1)*8, bigEndian)]

\* The loop while (offset + 128 <= len) of xzalgochain_update: the pair of
\* the hash words and the offset when it ends
RECURSIVE update_blocks(_, _, _, _)
update_blocks(h, data, offset, bigEndian) ==
  IF offset + 128 > Len(data) THEN <<h, offset>>
  ELSE After(h,
         update_blocks(process_block(h, load_block(data, offset, bigEndian)),
                       data, offset + 128, bigEndian))

\* A copy_len that never tops up the buffered bytes
update_copy_len_lost(ctx, len) == 0

\* copy_len: the bytes that top up a buffer that holds data
update_copy_len(ctx, len) ==
  IF ctx.buffer_len > 0
  THEN (IF len < 128 - ctx.buffer_len THEN len ELSE 128 - ctx.buffer_len)
  ELSE 0

\* A first part that leaves a buffer it has filled as it is
update_buffered_unflushed(ctx, data, copy_len, bigEndian) ==
  [ctx EXCEPT !.buffer = [i \in 1..128 |->
                            IF i > ctx.buffer_len /\ i <= ctx.buffer_len + copy_len
                            THEN data[i - ctx.buffer_len] ELSE ctx.buffer[i]],
              !.buffer_len = ctx.buffer_len + copy_len]

\* The first part of xzalgochain_update: the buffer topped up with the first
\* copy_len bytes of data and, when that fills it, processed as a block
update_buffered(ctx, data, copy_len, bigEndian) ==
  LET buf == [i \in 1..128 |->
                IF i > ctx.buffer_len /\ i <= ctx.buffer_len + copy_len
                THEN data[i - ctx.buffer_len] ELSE ctx.buffer[i]]
  IN  IF ctx.buffer_len > 0 /\ ctx.buffer_len + copy_len = 128
      THEN [ctx EXCEPT !.buffer = buf, !.buffer_len = 0,
                       !.h = process_block(ctx.h, load_block(buf, 0, bigEndian))]
      ELSE [ctx EXCEPT !.buffer = buf, !.buffer_len = ctx.buffer_len + copy_len]

\* The last part: r is what the loop over the complete blocks left, the
\* rest of data goes to the start of the buffer
update_remainder(ctx, data, r) ==
  IF r[2] < Len(data)
  THEN [ctx EXCEPT !.h = r[1],
                   !.buffer = [i \in 1..128 |->
                                 IF i <= Len(data) - r[2] THEN data[r[2] + i]
                                 ELSE ctx.buffer[i]],
                   !.buffer_len = Len(data) - r[2]]
  ELSE [ctx EXCEPT !.h = r[1]]

\* The second and last parts, on the context the first part left
update_direct(ctx, data, copy_len, bigEndian) ==
  update_remainder(ctx, data, update_blocks(ctx.h, data, copy_len, bigEndian))

\* A counter of the bytes processed
update_total_bytes(ctx, len) == [ctx EXCEPT !.total_bits = ADD(@, ToU64(len))]

\* ctx->total_bits += len*8
update_total_bits(ctx, len) == [ctx EXCEPT !.total_bits = ADD(@, ToU64(len * 8))]

\* An update without the return on len == 0
xzalgochain_update_unguarded(ctx, data, host) ==
  update_direct(
    update_buffered(update_total_bits(ctx, Len(data)),
                    data, update_copy_len(ctx, Len(data)), host.bigEndian),
    data, update_copy_len(ctx, Len(data)), host.bigEndian)

xzalgochain_update(ctx, data, host) ==
  IF Len(data) = 0 THEN ctx
  ELSE update_direct(
         update_buffered(update_total_bits(ctx, Len(data)),
                         data, update_copy_len(ctx, Len(data)), host.bigEndian),
         data, update_copy_len(ctx, Len(data)), host.bigEndian)

\* A reset that restores the initial words without mixing them
xzalgochain_ctx_reset_unmixed(forced, host) ==
  [xzalgochain_init(forced, host) EXCEPT !.h = H_INIT]

xzalgochain_ctx_reset(forced, host) == xzalgochain_init(forced, host)

xzalgochain_ctx_wipe ==
  [h |-> [i \in 1..5 |-> ZERO64],
   little_box_state |-> ZERO_LITTLE,
   big_box_state |-> ZERO_BIG,
   buffer |-> ZERO_BUFFER,
   buffer_len |-> 0,
   total_bits |-> ZERO64,
   simd_type |-> 0]

ROT_PARAMS == <<31, 27, 33, 23, 29>>

K_FINAL1 == U64(\h510E, \h9BB7, \h9275, \h22F5)
K_FINAL2 == U64(\h243F, \h6A88, \h85A3, \h08D3)
K_FINAL3 == U64(\hA076, \h1D64, \h7ABD, \h642F)

\* x ^= rotr64(x, n)
xor_rotr(x, n) == XOR(x, rotr64(x, n))

\* Final mixing of hash word i (0-based) of xzalgochain_final
final_word_mix(x, i) ==
  LET x2 == ADD(MUL(xor_rotr(x, ROT_PARAMS[i + 1]), K_FINAL1), K_FINAL2)
      x4 == MUL(xor_rotr(x2, ROT_PARAMS[((i + 1) % 5) + 1]), K_FINAL3)
  IN  xor_shr(xor_shr(x4, 23), 38)

final_word_mix_all(h) == Array5([p \in 1..5 |-> final_word_mix(h[p], p - 1)])

\* acc = rotr64(acc, 19) ^ rotl64(acc, 37)
final_rotate(acc) == XOR(rotr64(acc, 19), rotl64(acc, 37))

\* The loop over the BIG boxes that combines their states into acc
RECURSIVE final_combine(_, _, _, _)
final_combine(acc, bbs, i, bb) ==
  IF bb = BIG_BOX_COUNT THEN acc
  ELSE After(acc,
         final_combine(MUL(ADD(final_rotate(XOR(acc, bbs[bb + 1][i + 1])),
                               bbs[bb + 1][((i + 2) % 5) + 1]),
                           K_GOLDEN),
                       bbs, i, bb + 1))

final_mix_word(h, bbs, i) ==
  LET a2 == MUL(xor_shr(final_combine(h[i + 1], bbs, i, 0), 29), K_SPLITMIX1)
      a4 == MUL(xor_shr(a2, 27), K_SPLITMIX2)
  IN  xor_shr(a4, 31)

\* final_mix[0..4], copied to h
final_mix_all(h, bbs) == Array5([p \in 1..5 |-> final_mix_word(h, bbs, p - 1)])

\* One of the 3 additional final mixing rounds
final_extra_round(h, bbs, round) ==
  Array5([p \in 1..5 |->
            rotl64(XOR(extra_mix(h[p]), bbs[(round % BIG_BOX_COUNT) + 1][p]),
                   17 + round*5)])

\* The additional rounds round .. 2
RECURSIVE final_extra_rounds(_, _, _)
final_extra_rounds(h, bbs, round) ==
  IF round = 3 THEN h
  ELSE After(h, final_extra_rounds(final_extra_round(h, bbs, round), bbs, round + 1))

\* mix of one of the 5 last rounds: the loop over i, from i on
RECURSIVE final_even_mix(_, _, _)
final_even_mix(mix, h, i) ==
  IF i = 5 THEN mix
  ELSE After(mix,
         final_even_mix(XOR(rotl64(XOR(mix, h[i + 1]), 17), h[((i + 2) % 5) + 1]),
                        h, i + 1))

\* The feedback of mix into the hash words, in place, from i on; h[(i+1)%5]
\* is read after h[i] is replaced, and is another word
RECURSIVE final_even_feedback(_, _, _)
final_even_feedback(h, mix, i) ==
  IF i = 5 THEN h
  ELSE After(<<h, mix>>,
         final_even_feedback(
           [h EXCEPT ![i + 1] =
              rotr64(XOR(MUL(XOR(@, rotl64(mix, i * 13)), K_GOLDEN),
                         SHR(h[((i + 1) % 5) + 1], i*7 + 3)),
                     23 + i*5)],
           mix, i + 1))

RECURSIVE final_even_rounds(_, _)
final_even_rounds(h, round) ==
  IF round = 5 THEN h
  ELSE After(h,
         final_even_rounds(final_even_feedback(h, final_even_mix(ZERO64, h, 0), 0),
                           round + 1))

\* The n >= 1 iterations bb .. bb + n - 1 of the loop
\* for (bb = 0; bb < BIG_BOX_COUNT; bb++) big_box_execute(ctx, bb, bb*2000),
\* run as the first n \div 2 of them and then the rest
RECURSIVE final_big_boxes(_, _, _, _, _, _)
final_big_boxes(ctx, bb, n, forced, built, omp) ==
  After(ctx,
    IF n = 1 THEN big_box_execute(ctx, bb, bb * 2000, forced, built, omp)
    ELSE final_big_boxes(final_big_boxes(ctx, bb, n \div 2, forced, built, omp),
                         bb + (n \div 2), n - (n \div 2), forced, built, omp))

\* The output mixing of xzalgochain_final: the hash words after the BIG boxes
final_output_mix(h, bbs) ==
  final_even_rounds(
    final_extra_rounds(final_mix_all(final_word_mix_all(h), bbs), bbs, 0), 0)

\* The digest bytes: u64_to_bytes(h[i], output + i*8) for i = 0..4
hash_to_bytes(h, bigEndian) ==
  u64_to_bytes(h[1], bigEndian) \o u64_to_bytes(h[2], bigEndian) \o
  u64_to_bytes(h[3], bigEndian) \o u64_to_bytes(h[4], bigEndian) \o
  u64_to_bytes(h[5], bigEndian)

\* A padding that marks the end of the bytes with 0x01
final_pad_marked(ctx) ==
  [ctx EXCEPT !.buffer = [i \in 1..128 |->
                            IF i = ctx.buffer_len + 1 THEN 1
                            ELSE IF i > ctx.buffer_len + 1 THEN 0
                            ELSE ctx.buffer[i]],
              !.buffer_len = ctx.buffer_len + 1]

\* The padding, for buffer_len < 128: buffer[buffer_len] = 0x80, buffer_len++,
\* and the rest of the buffer zeroed
final_pad(ctx) ==
  [ctx EXCEPT !.buffer = [i \in 1..128 |->
                            IF i = ctx.buffer_len + 1 THEN 128       \* 0x80
                            ELSE IF i > ctx.buffer_len + 1 THEN 0
                            ELSE ctx.buffer[i]],
              !.buffer_len = ctx.buffer_len + 1]

\* The final block: the buffer through process_block
final_block(ctx, bigEndian) ==
  [ctx EXCEPT !.h = process_block(ctx.h, load_block(ctx.buffer, 0, bigEndian))]

\* The pair of the context final leaves and the output it writes, from the
\* hash words h the output mixing computed
final_result(ctx, h, bigEndian) ==
  After(h, <<[ctx EXCEPT !.h = h], hash_to_bytes(h, bigEndian)>>)

\* The end of xzalgochain_final, from the context the BIG boxes left
final_finish(ctx, bigEndian) ==
  After(ctx, final_result(ctx, final_output_mix(ctx.h, ctx.big_box_state), bigEndian))

\* xzalgochain_final on a context whose buffer_len is below 128: the pair of
\* the context it leaves and the output it writes
xzalgochain_final(ctx, forced, host, omp) ==
  final_finish(
    final_big_boxes(final_block(final_pad(ctx), host.bigEndian), 0, BIG_BOX_COUNT,
                    forced, host.built, omp),
    host.bigEndian)

\* big_box_execute(ctx, bb, bb*2000) in steps. The salt it generates first:
\* the local salt once LITTLE box 0 has run
big_box_salt(ctx, lb, salt) == IF lb = 0 THEN generate_salt(ctx.h) ELSE salt

\* An iteration that stores the first word of the lane in h[0] as well
big_box_iteration_feeding(ctx, salt, bb, lb, forced, built, omp) ==
  [ctx EXCEPT !.h[1] =
     big_box_little_box(ctx.h, salt, lb, bb * 2000, ctx.simd_type, forced, built, omp)[3]]

\* Iteration lb of its LITTLE-box loop, with the flag as it is read then
big_box_iteration(ctx, salt, bb, lb, forced, built, omp) ==
  [ctx EXCEPT !.little_box_state[lb + 1] =
     big_box_little_box(ctx.h, salt, lb, bb * 2000, ctx.simd_type, forced, built, omp)]

\* The aggregation that follows the last iteration
big_box_finish(ctx, salt, bb) ==
  After(ctx,
    [ctx EXCEPT !.big_box_state[bb + 1] =
       big_box_aggregate(ctx.little_box_state, salt, bb, bb * 2000)])

\* The context after iteration lb of BIG box bb
big_box_step(ctx, salt, bb, lb, forced, built, omp) ==
  IF lb + 1 = LITTLE_BOX_COUNT
  THEN big_box_finish(big_box_iteration(ctx, salt, bb, lb, forced, built, omp), salt, bb)
  ELSE big_box_iteration(ctx, salt, bb, lb, forced, built, omp)

\* bb, lb and salt after iteration lb of BIG box bb
frame_step(salt, bb, lb) ==
  IF lb + 1 = LITTLE_BOX_COUNT
  THEN [bb |-> bb + 1, lb |-> 0, salt |-> <<>>]
  ELSE [bb |-> bb, lb |-> lb + 1, salt |-> salt]

(* ------------------- XzalgoChain.h: the single-shot call --------------- *)
(* output is the array of 40 bytes the caller passes. The casts of output  *)
(* to a pointer to uint64_t make out[i] and out64[i] the 8 bytes at        *)
(* output + i*8, read and written as the machine holds a uint64_t.         *)

\* out[i]: the word the machine reads at output + i*8
output_word(output, i, bigEndian) ==
  LoadU64(SubSeq(output, i*8 + 1, i*8 + 8), bigEndian)

\* The five words out[0..4] of the array
output_words(output, bigEndian) ==
  Array5([p \in 1..5 |-> output_word(output, p - 1, bigEndian)])

\* for (i = 0; i < 5; i++) u64_to_bytes(out[i], output + i*8): the array,
\* from the words out[0..4] the machine reads in it
output_convert(out, bigEndian) == hash_to_bytes(out, bigEndian)

\* out[i] = rotr64(out[i], 19) ^ rotl64(acc, 37); out[i] *= ..., acc being
\* the accumulator after acc ^= out[i]
single_mix_word(x, acc) == MUL(XOR(rotr64(x, 19), rotl64(acc, 37)), K_SPLITMIX1)

\* One iteration of the loop over i, in place; out[(i+2)%5] is another word
single_mix_step(out, acc, i) ==
  After(acc,
    [out EXCEPT ![i + 1] =
       XOR(single_mix_word(out[i + 1], acc), SHR(out[((i + 2) % 5) + 1], 27))])

\* The loop over i of one mixing pass, from i on
RECURSIVE single_mix_loop(_, _, _)
single_mix_loop(out, acc, i) ==
  IF i = 5 THEN out
  ELSE After(out,
         single_mix_loop(single_mix_step(out, XOR(acc, out[i + 1]), i),
                         XOR(acc, out[i + 1]), i + 1))

\* for (mix = 0; mix < 3; mix++), from pass mix on
RECURSIVE single_mix_passes(_, _)
single_mix_passes(out, mix) ==
  IF mix = 3 THEN out
  ELSE single_mix_passes(single_mix_loop(out, ZERO64, 0), mix + 1)

\* An extra pass that leaves the words as they are
single_extra_pass_skipped(out64, i) == out64

\* out64[i] = extra_mix(out64[i]); out64[i] ^= out64[(i+2)%5], from i on
RECURSIVE single_extra_pass(_, _)
single_extra_pass(out64, i) ==
  IF i = 5 THEN out64
  ELSE After(out64,
         single_extra_pass(
           [out64 EXCEPT ![i + 1] = XOR(extra_mix(@), out64[((i + 2) % 5) + 1])],
           i + 1))

\* The three passes on the output of final, and the conversion after them
single_remix(output, bigEndian) ==
  output_convert(single_mix_passes(output_words(output, bigEndian), 0), bigEndian)

\* The one more pass on the converted array, and the last conversion
single_extra(output, bigEndian) ==
  output_convert(single_extra_pass(output_words(output, bigEndian), 0), bigEndian)

\* xzalgochain(data, len, output): the 40 bytes it leaves in output
\* What follows xzalgochain_final(&ctx, output) in xzalgochain: the three
\* passes, the extra pass and the conversions, on the array final has filled
single_after_final(output, bigEndian) ==
  After(output, single_extra(single_remix(output, bigEndian), bigEndian))

xzalgochain(data, forced, host, omp) ==
  single_after_final(
    xzalgochain_final(xzalgochain_update(xzalgochain_init(forced, host), data, host),
                      forced, host, omp)[2],
    host.bigEndian)

(* ----------------- xzalgochain.c and xzalgochain_wasm.c ---------------- *)
(* The one-call functions the library and the WebAssembly module export.   *)

\* An exported function that forwards to the header's xzalgochain()
exported_single_shot(data, forced, host, omp) == xzalgochain(data, forced, host, omp)

\* xzalgochain_lib(data, len, output): init, update and final on a context
\* of its own, which it wipes before it returns; output keeps what final
\* wrote
xzalgochain_lib(data, forced, host, omp) ==
  xzalgochain_final(xzalgochain_update(xzalgochain_init(forced, host), data, host),
                    forced, host, omp)[2]

\* xzalgochain_wasm(data, len, output): the same four calls
xzalgochain_wasm(data, forced, host, omp) ==
  xzalgochain_final(xzalgochain_update(xzalgochain_init(forced, host), data, host),
                    forced, host, omp)[2]
(* ======================= The library as a state machine ================ *)
(* Each thread of the program owns one XzalgoChain_CTX and one 40-byte     *)
(* output buffer; the force-scalar flag is the only process-wide datum.    *)

NThreads == 2
Threads == 1..NThreads
\* The thread main() runs in
MainThread == CHOOSE t \in Threads : \A u \in Threads : t <= u

\* The bytes a caller passes to update: the byte (i*37 + 11) mod 256 at i
Pattern(n) == [i \in 1..n |-> (i * 37 + 11) % 256]

LenShort == 120
LenLong == 255

\* The chunks update is called with: none, one zero byte, a chunk that ends
\* in the last word of a block, and a chunk of one block and all but one
\* byte of the next
Chunks == {<<>>, <<0>>, Pattern(LenShort), Pattern(LenLong)}

\* A machine, a build and a program: the back-end the run-time detection
\* reports, the back-end the executors were compiled for, the byte order,
\* whether the build has OpenMP (-fopenmp), and whether the threads of the
\* program are the team of one parallel region, as in tests/hash_counter.c
HOST_GENERIC ==
  [detected |-> SIMD_NONE, built |-> SIMD_NONE, bigEndian |-> FALSE,
   openmp |-> FALSE, team |-> FALSE]
HOST_GENERIC_BE ==
  [detected |-> SIMD_NONE, built |-> SIMD_NONE, bigEndian |-> TRUE,
   openmp |-> FALSE, team |-> FALSE]
HOST_X86 ==
  [detected |-> SIMD_AVX2, built |-> SIMD_AVX2, bigEndian |-> FALSE,
   openmp |-> FALSE, team |-> FALSE]
HOST_X86_OLD ==
  [detected |-> SIMD_NONE, built |-> SIMD_AVX2, bigEndian |-> FALSE,
   openmp |-> FALSE, team |-> FALSE]
HOST_ARM ==
  [detected |-> SIMD_NEON, built |-> SIMD_NEON, bigEndian |-> FALSE,
   openmp |-> FALSE, team |-> FALSE]
HOST_ARM_BE ==
  [detected |-> SIMD_NEON, built |-> SIMD_NEON, bigEndian |-> TRUE,
   openmp |-> FALSE, team |-> FALSE]
\* The build of tests/hash_counter.c (-march=native -fopenmp on x86-64), its
\* threads created otherwise than by a parallel region
HOST_X86_OPENMP ==
  [detected |-> SIMD_AVX2, built |-> SIMD_AVX2, bigEndian |-> FALSE,
   openmp |-> TRUE, team |-> FALSE]
\* tests/hash_counter.c: the threads are those of #pragma omp parallel
HOST_X86_OPENMP_TEAM ==
  [detected |-> SIMD_AVX2, built |-> SIMD_AVX2, bigEndian |-> FALSE,
   openmp |-> TRUE, team |-> TRUE]

\* The place of thread t of the program in the OpenMP runtime of host h
omp_place(h, t) ==
  IF h.openmp /\ h.team
  THEN [thread_num |-> t - 1, num_threads |-> NThreads]
  ELSE OMP_ALONE

VARIABLES
  host,          \* the machine, the build and the program
  force_scalar,  \* _xz_force_scalar # 0
  ctx,           \* ctx[t]: the XzalgoChain_CTX of thread t
  output,        \* output[t]: the bytes the last final of t wrote, <<>> before
  pc,            \* pc[t]: "idle", or "final" inside xzalgochain_final
  frame,         \* frame[t]: bb, lb and salt of the final thread t is inside
  flag_reads,    \* flag_reads[t]: the values of the flag the last final of t has read
  fed,           \* fed[t]: the bytes passed to update since the last init of ctx[t]
  finals,        \* finals[t]: the finals called since the last init of ctx[t]
  wiped,         \* wiped[t]: ctx[t] was wiped and not initialised since
  last,          \* last[t]: the last call made on ctx[t]
  fault,         \* a call has had undefined behaviour
  calls,         \* calls[t]: the number of calls made on ctx[t]
  call           \* the last call of a function that takes no context: its
                 \* name, its arguments and what it returned

vars == <<host, force_scalar, ctx, output, pc, frame, flag_reads, fed, finals, wiped, last, fault, calls, call>>

\* The locals of xzalgochain_final and big_box_execute before the first BIG box
FRAME_START == [bb |-> 0, lb |-> 0, salt |-> <<>>]

\* No function without a context has been called
NO_CALL == [op |-> "none"]

\* The state after every thread has declared its context and called
\* xzalgochain_init on it, on host h with the flag at f
InitOn(h, f) ==
  /\ host = h
  /\ force_scalar = f
  /\ ctx = [t \in Threads |-> xzalgochain_init(f, h)]
  /\ output = [t \in Threads |-> <<>>]
  /\ pc = [t \in Threads |-> "idle"]
  /\ frame = [t \in Threads |-> FRAME_START]
  /\ flag_reads = [t \in Threads |-> {}]
  /\ fed = [t \in Threads |-> <<>>]
  /\ finals = [t \in Threads |-> 0]
  /\ wiped = [t \in Threads |-> FALSE]
  /\ last = [t \in Threads |-> "init"]
  /\ fault = FALSE
  /\ calls = [t \in Threads |-> 0]
  /\ call = NO_CALL

\* A call of thread t can start: the process is alive and t is in no call
CanCall(t, max) == ~fault /\ pc[t] = "idle" /\ calls[t] < max

Called(op, t) ==
  /\ last' = [last EXCEPT ![t] = op]
  /\ calls' = [calls EXCEPT ![t] = @ + 1]

\* xzalgochain_init(&ctx[t])
DoInit(t, max) ==
  /\ CanCall(t, max)
  /\ ctx' = [ctx EXCEPT ![t] = xzalgochain_init(force_scalar, host)]
  /\ fed' = [fed EXCEPT ![t] = <<>>]
  /\ finals' = [finals EXCEPT ![t] = 0]
  /\ wiped' = [wiped EXCEPT ![t] = FALSE]
  /\ Called("init", t)
  /\ UNCHANGED <<call, host, force_scalar, output, pc, frame, flag_reads, fault>>

\* xzalgochain_ctx_reset(&ctx[t])
DoReset(t, max) ==
  /\ CanCall(t, max)
  /\ ctx' = [ctx EXCEPT ![t] = xzalgochain_ctx_reset(force_scalar, host)]
  /\ fed' = [fed EXCEPT ![t] = <<>>]
  /\ finals' = [finals EXCEPT ![t] = 0]
  /\ wiped' = [wiped EXCEPT ![t] = FALSE]
  /\ Called("reset", t)
  /\ UNCHANGED <<call, host, force_scalar, output, pc, frame, flag_reads, fault>>

\* xzalgochain_ctx_wipe(&ctx[t])
DoWipe(t, max) ==
  /\ CanCall(t, max)
  /\ ctx' = [ctx EXCEPT ![t] = xzalgochain_ctx_wipe]
  /\ wiped' = [wiped EXCEPT ![t] = TRUE]
  /\ Called("wipe", t)
  /\ UNCHANGED <<call, host, force_scalar, output, pc, frame, flag_reads, fed, finals, fault>>

\* xzalgochain_update(&ctx[t], data, len) with the bytes of chunk c
DoUpdate(t, c, max) ==
  /\ CanCall(t, max)
  /\ ctx' = [ctx EXCEPT ![t] = xzalgochain_update(ctx[t], c, host)]
  /\ fed' = [fed EXCEPT ![t] = fed[t] \o c]
  /\ Called("update", t)
  /\ UNCHANGED <<call, host, force_scalar, output, pc, frame, flag_reads, finals, wiped, fault>>

\* What xzalgochain_final leaves of a context whose buffer_len is 128 (or
\* more): buffer[buffer_len] = 0x80 writes past the buffer, and the length
\* 128 - buffer_len of the memset wraps to almost 2^64. The behaviour is
\* undefined; the process is stopped either before anything is written, or
\* after the memset has zeroed the rest of the context behind the buffer.
final_overrun(c) ==
  {c, [c EXCEPT !.buffer_len = c.buffer_len + 1, !.total_bits = ZERO64, !.simd_type = 0]}

\* The values of the flag read so far by a final on context c once it has
\* made one more executor call: little_box_execute_simd reads the flag, the
\* scalar adapter does not
flag_read(c, reads) ==
  IF executor_is_simd(c.simd_type, host.built)
  THEN reads \cup {force_scalar}
  ELSE reads

\* xzalgochain_final(&ctx[t], output[t])
DoFinal(t, max) ==
  /\ CanCall(t, max)
  /\ IF ctx[t].buffer_len < 128
     THEN LET r == xzalgochain_final(ctx[t], force_scalar, host, omp_place(host, t))
          IN  /\ ctx' = [ctx EXCEPT ![t] = r[1]]
              /\ output' = [output EXCEPT ![t] = r[2]]
              /\ flag_reads' = [flag_reads EXCEPT ![t] = flag_read(ctx[t], {})]
              /\ fault' = fault
     ELSE /\ ctx' \in {[ctx EXCEPT ![t] = c] : c \in final_overrun(ctx[t])}
          /\ output' = output
          /\ flag_reads' = [flag_reads EXCEPT ![t] = {}]
          /\ fault' = TRUE
  /\ finals' = [finals EXCEPT ![t] = @ + 1]
  /\ Called("final", t)
  /\ UNCHANGED <<call, host, force_scalar, pc, frame, fed, wiped>>

\* xzalgochain_force_scalar(force), called by any thread at any time
DoForceScalar(force) ==
  /\ ~fault
  /\ force_scalar' = force
  /\ UNCHANGED <<call, host, ctx, output, pc, frame, flag_reads, fed, finals, wiped, last, fault, calls>>

(* xzalgochain_final as the steps other threads can fall between: the     *)
(* entry up to the first executor call, one step for each executor call,   *)
(* and the return.                                                         *)

\* t calls xzalgochain_final: the padding and the final block
FinalEnter(t, max) ==
  /\ CanCall(t, max)
  /\ IF ctx[t].buffer_len < 128
     THEN /\ ctx' = [ctx EXCEPT ![t] = final_block(final_pad(ctx[t]), host.bigEndian)]
          /\ pc' = [pc EXCEPT ![t] = "final"]
          /\ fault' = fault
     ELSE /\ ctx' \in {[ctx EXCEPT ![t] = c] : c \in final_overrun(ctx[t])}
          /\ pc' = pc
          /\ fault' = TRUE
  /\ frame' = [frame EXCEPT ![t] = FRAME_START]
  /\ flag_reads' = [flag_reads EXCEPT ![t] = {}]
  /\ finals' = [finals EXCEPT ![t] = @ + 1]
  /\ Called("final", t)
  /\ UNCHANGED <<call, host, force_scalar, output, fed, wiped>>

\* One executor call of big_box_execute, the salt of the BIG box being salt
LittleBoxCall(t, salt) ==
  /\ ctx' = [ctx EXCEPT ![t] = big_box_step(ctx[t], salt, frame[t].bb, frame[t].lb,
                                            force_scalar, host.built,
                                            omp_place(host, t))]
  /\ frame' = [frame EXCEPT ![t] = frame_step(salt, frame[t].bb, frame[t].lb)]
  /\ flag_reads' = [flag_reads EXCEPT ![t] = flag_read(ctx[t], @)]

\* t runs the next LITTLE box of the final it is inside
LittleBoxStep(t) ==
  /\ ~fault
  /\ pc[t] = "final"
  /\ frame[t].bb < BIG_BOX_COUNT
  /\ LittleBoxCall(t, big_box_salt(ctx[t], frame[t].lb, frame[t].salt))
  /\ UNCHANGED <<call, host, force_scalar, output, pc, fed, finals, wiped, last, fault, calls>>

\* What final stores when it returns: r is the pair final_finish computes
FinalStores(t, r) ==
  /\ ctx' = [ctx EXCEPT ![t] = r[1]]
  /\ output' = [output EXCEPT ![t] = r[2]]
  /\ pc' = [pc EXCEPT ![t] = "idle"]
  /\ frame' = [frame EXCEPT ![t] = FRAME_START]
  /\ UNCHANGED <<call, host, force_scalar, fed, finals, wiped, last, fault, calls>>

\* t returns from final after the last BIG box
FinalLeave(t) ==
  /\ ~fault
  /\ pc[t] = "final"
  /\ frame[t].bb = BIG_BOX_COUNT
  /\ FinalStores(t, final_finish(ctx[t], host.bigEndian))
  /\ UNCHANGED flag_reads

\* The threads that share the work of an omp for that thread t reaches
Team(t) == IF host.openmp /\ host.team THEN Threads ELSE {t}

\* The finals thread u has entered
Entered(u) == finals[u]

\* The finals thread u has returned from
Left(u) == IF pc[u] = "final" THEN finals[u] - 1 ELSE finals[u]

\* t runs all BIG boxes of the final it has entered and returns. Every omp
\* for of the executors ends in a barrier of the team, so t returns from a
\* final only when every thread of its team has entered as many.
FinalReturn(t) ==
  /\ ~fault
  /\ pc[t] = "final"
  /\ frame[t] = FRAME_START
  /\ \A u \in Team(t) : Entered(u) > Left(t)
  /\ FinalStores(t, final_finish(final_big_boxes(ctx[t], 0, BIG_BOX_COUNT, force_scalar,
                                                host.built, omp_place(host, t)),
                                host.bigEndian))
  /\ flag_reads' = [flag_reads EXCEPT ![t] = flag_read(ctx[t], {})]

(* ---------------- One thread using the streaming API ------------------- *)

MaxCalls == 3

Init == InitOn(HOST_GENERIC, FALSE)

Next ==
  \/ DoInit(MainThread, MaxCalls)
  \/ DoReset(MainThread, MaxCalls)
  \/ DoWipe(MainThread, MaxCalls)
  \/ \E c \in Chunks : DoUpdate(MainThread, c, MaxCalls)
  \/ DoFinal(MainThread, MaxCalls)

Spec == Init /\ [][Next]_vars

(* ------------- calls of the functions that take no context ------------ *)
(* xzalgochain() works on a context of its own on the stack, and the       *)
(* compression function and the executors work on the arrays they are      *)
(* given: a call changes no context of a thread. call holds the last one.  *)

\* Thread t makes one more call, its context and its history left alone
CalledAside(t) == calls' = [calls EXCEPT ![t] = @ + 1]

\* xzalgochain(data, len, output) on an array of 40 bytes, by thread t
DoSingleShot(t, m, max) ==
  /\ CanCall(t, max)
  /\ call' = [op |-> "xzalgochain", data |-> m,
              output |-> xzalgochain(m, force_scalar, host, omp_place(host, t))]
  /\ CalledAside(t)
  /\ UNCHANGED <<host, force_scalar, ctx, output, pc, frame, flag_reads, fed,
                 finals, wiped, last, fault>>

\* process_block(h, block) by thread t on copies of the words h, once with
\* the block and once with the block whose word block[k] is w instead
DoProcessBlocks(t, h, block, k, w, max) ==
  /\ CanCall(t, max)
  /\ call' = [op |-> "process_block", h |-> h, block |-> block,
              changed |-> k, word |-> w,
              result |-> process_block(h, block),
              result_changed |-> process_block(h, [block EXCEPT ![k + 1] = w])]
  /\ CalledAside(t)
  /\ UNCHANGED <<host, force_scalar, ctx, output, pc, frame, flag_reads, fed,
                 finals, wiped, last, fault>>

\* The executor of a back-end called by thread t on an array of num_blocks
\* lanes of 10 words
DoLittleBox(t, backend, input, salt_scalar, round_base, num_blocks, max) ==
  /\ CanCall(t, max)
  /\ call' = [op |-> "little_box_execute", backend |-> backend, input |-> input,
              salt_scalar |-> salt_scalar, round_base |-> round_base,
              num_blocks |-> num_blocks,
              mixed |-> executor_mixed(num_blocks, omp_place(host, t)),
              result |->
                CASE backend = SIMD_AVX2 ->
                       little_box_execute_simd_avx2(input, salt_scalar, round_base,
                                                    num_blocks, omp_place(host, t))
                  [] backend = SIMD_NEON ->
                       little_box_execute_simd_neon(input, salt_scalar, round_base,
                                                    num_blocks, omp_place(host, t))
                  [] OTHER ->
                       little_box_execute_scalar(input, salt_scalar, round_base,
                                                 num_blocks, omp_place(host, t))]
  /\ CalledAside(t)
  /\ UNCHANGED <<host, force_scalar, ctx, output, pc, frame, flag_reads, fed,
                 finals, wiped, last, fault>>

\* little_box_execute_simd called by thread t on an array of num_blocks lanes
\* of 10 words, in the build of the host and with the flag as it is
DoLittleBoxSimd(t, input, salt_scalar, round_base, num_blocks, max) ==
  /\ CanCall(t, max)
  /\ call' = [op |-> "little_box_execute_simd", input |-> input,
              salt_scalar |-> salt_scalar, round_base |-> round_base,
              num_blocks |-> num_blocks,
              mixed |-> simd_mixed(num_blocks, force_scalar, host.built,
                                   omp_place(host, t)),
              result |-> little_box_execute_simd(input, salt_scalar, round_base,
                                                 num_blocks, force_scalar, host.built,
                                                 omp_place(host, t))]
  /\ CalledAside(t)
  /\ UNCHANGED <<host, force_scalar, ctx, output, pc, frame, flag_reads, fed,
                 finals, wiped, last, fault>>


\* xzalgochain_lib(data, len, output) on an array of 40 bytes, by thread t
DoLib(t, m, max) ==
  /\ CanCall(t, max)
  /\ call' = [op |-> "xzalgochain_lib", data |-> m,
              output |-> xzalgochain_lib(m, force_scalar, host, omp_place(host, t))]
  /\ CalledAside(t)
  /\ UNCHANGED <<host, force_scalar, ctx, output, pc, frame, flag_reads, fed,
                 finals, wiped, last, fault>>

\* xzalgochain_wasm(data, len, output) on an array of 40 bytes, by thread t
DoWasm(t, m, max) ==
  /\ CanCall(t, max)
  /\ call' = [op |-> "xzalgochain_wasm", data |-> m,
              output |-> xzalgochain_wasm(m, force_scalar, host, omp_place(host, t))]
  /\ CalledAside(t)
  /\ UNCHANGED <<host, force_scalar, ctx, output, pc, frame, flag_reads, fed,
                 finals, wiped, last, fault>>

\* The lane mix of a back-end applied by thread t to a vector of 4 words:
\* mix_lanes_vector, mix_lanes or n256_mix_lanes
DoMixLanes(t, backend, v, max) ==
  /\ CanCall(t, max)
  /\ call' = [op |-> "mix_lanes", backend |-> backend, v |-> v,
              result |-> CASE backend = SIMD_AVX2 -> mix_lanes(v)
                           [] backend = SIMD_NEON -> n256_mix_lanes(v)
                           [] OTHER -> mix_lanes_vector(v)]
  /\ CalledAside(t)
  /\ UNCHANGED <<host, force_scalar, ctx, output, pc, frame, flag_reads, fed,
                 finals, wiped, last, fault>>

\* The lane-wise multiplication of a back-end applied by thread t to a
\* vector and a multiplier: vec256_mul_const(v, c), n256_mul64(v, c), or
\* mullo64(v, _mm256_set1_epi64x(c)) as arx_mix calls it
DoMulLanes(t, backend, v, c, max) ==
  /\ CanCall(t, max)
  /\ call' = [op |-> "mul64", backend |-> backend, v |-> v, c |-> c,
              result |-> CASE backend = SIMD_AVX2 -> mullo64(v, vec256_set1(c))
                           [] backend = SIMD_NEON -> n256_mul64(v, c)
                           [] OTHER -> vec256_mul_const(v, c)]
  /\ CalledAside(t)
  /\ UNCHANGED <<host, force_scalar, ctx, output, pc, frame, flag_reads, fed,
                 finals, wiped, last, fault>>

\* generate_salt(input, salt) by thread t, once as it is and once with the
\* entry s[k] of its table holding w when the rounds begin; table is the
\* array s it leaves on its stack
DoGenerateSalt(t, input, k, w, max) ==
  /\ CanCall(t, max)
  /\ call' = [op |-> "generate_salt", input |-> input, changed |-> k, word |-> w,
              seed |-> salt_seed(input),
              table |-> salt_mixed(salt_seed(input)),
              result |-> generate_salt(input),
              result_changed |-> salt_from([salt_seed(input) EXCEPT ![k + 1] = w])]
  /\ CalledAside(t)
  /\ UNCHANGED <<host, force_scalar, ctx, output, pc, frame, flag_reads, fed,
                 finals, wiped, last, fault>>

(* ------------------ Properties of one thread's calls ------------------- *)

\* The digest of the message m on host h with the flag at f: the 40 bytes
\* that init, update(m), final write
Digest(m, h, f) ==
  xzalgochain_final(xzalgochain_update(xzalgochain_init(f, h), m, h),
                    f, h, OMP_ALONE)[2]

\* Thread t has just been returned the output of a run init, update .. update,
\* final on its context
Hashed(t) ==
  /\ last[t] = "final"
  /\ pc[t] = "idle"
  /\ finals[t] = 1
  /\ ~wiped[t]
  /\ ~fault

\* C1 (chunk-invariance): the output of init, update(c1), .., update(ck), final
\* is the output of init, update(c1 \o .. \o ck), final, whatever the chunks,
\* those of length zero included.
C1_ChunkInvariance ==
  Hashed(MainThread) =>
    output[MainThread] = Digest(fed[MainThread], host, force_scalar)

\* A run of two chunks, the second of which starts inside a block and ends
\* inside a later one, has been hashed
C1_Witness ==
  /\ Hashed(MainThread)
  /\ calls[MainThread] = 3
  /\ Len(fed[MainThread]) = LenShort + LenLong

\* C2 (length sensitivity): the digest of m followed by one 0x00 byte is not
\* the digest of m.
C2_LengthSensitivity ==
  (/\ Hashed(MainThread)
   /\ Len(fed[MainThread]) > 0
   /\ fed[MainThread][Len(fed[MainThread])] = 0)
  => output[MainThread] #
       Digest(SubSeq(fed[MainThread], 1, Len(fed[MainThread]) - 1), host, force_scalar)

\* The digest of a message that ends in a 0x00 byte has been computed
C2_Witness ==
  /\ Hashed(MainThread)
  /\ Len(fed[MainThread]) = LenShort + 1
  /\ fed[MainThread][LenShort + 1] = 0

\* All the words of a context that the hash owns are zero
CtxZeroed(c) ==
  /\ c.h = [i \in 1..5 |-> ZERO64]
  /\ c.little_box_state = ZERO_LITTLE
  /\ c.big_box_state = ZERO_BIG
  /\ c.buffer = ZERO_BUFFER
  /\ c.buffer_len = 0
  /\ c.total_bits = ZERO64

\* C3 (final wipes): when final returns, the hash words, the LITTLE-box and
\* BIG-box states, the buffer, the buffer length and the bit counter of the
\* context are all zero.
C3_FinalWipes ==
  \A t \in Threads : (last[t] = "final" /\ ~fault) => CtxZeroed(ctx[t])

\* final has returned on a context that had absorbed a message
C3_Witness ==
  /\ Hashed(MainThread)
  /\ Len(fed[MainThread]) = LenLong

\* C4 (buffer bound): between calls, the buffer length of a context is
\* strictly less than 128.
C4_BufferBelow128 ==
  \A t \in Threads : ~fault => ctx[t].buffer_len < 128

\* final has returned on a context whose buffer held 127 bytes
C4_Witness ==
  /\ Hashed(MainThread)
  /\ Len(fed[MainThread]) % 128 = 127

\* The call that is returning is a misuse of the context of thread t: an
\* update after a wipe, or a final after a final, with no init or reset
\* between
Misuse(t) ==
  /\ calls'[t] = calls[t] + 1
  /\ \/ last'[t] = "update" /\ wiped[t]
     \/ last'[t] = "final" /\ finals[t] >= 1

\* C5 (misuse is rejected): an update on a wiped context and a second final
\* on a context change neither the context nor the output.
C5_MisuseRejected ==
  [][\A t \in Threads :
       Misuse(t) => (ctx'[t] = ctx[t] /\ output'[t] = output[t])]_vars

\* A second final has returned on a context, with no init or reset between
C5_Witness ==
  /\ last[MainThread] = "final"
  /\ finals[MainThread] = 2

\* C6 (no run-time error): no sequence of update and final calls on an
\* initialised context has undefined behaviour.
C6_NoRuntimeError ==
  (\A t \in Threads : ~wiped[t]) => ~fault

\* final has been called twice on a context that update had left with 127
\* buffered bytes
C6_Witness ==
  /\ finals[MainThread] = 2
  /\ ~wiped[MainThread]
  /\ Len(fed[MainThread]) % 128 = 127

C15_ResetIsInit ==
  \A t \in Threads :
    ~fault =>
      /\ last[t] = "reset" => ctx[t] = xzalgochain_init(force_scalar, host)
      /\ Hashed(t) => output[t] = Digest(fed[t], host, force_scalar)

\* A context that has absorbed a message and been finalised has been reset
C15_Witness ==
  /\ last[MainThread] = "reset"
  /\ calls[MainThread] = 3
  /\ output[MainThread] # <<>>
  /\ ctx[MainThread].buffer_len = 0
  /\ ctx[MainThread].total_bits = ZERO64

\* The call that is returning is an update of thread t with no byte
EmptyUpdate(t) ==
  /\ calls'[t] = calls[t] + 1
  /\ last'[t] = "update"
  /\ fed'[t] = fed[t]

(* C16 (zero-length update): an update with no byte returns without       *)
(* changing any field of the context, and a final that follows an init     *)
(* with nothing but such updates between yields the digest that init,      *)
(* final yields.                                                           *)
C16_EmptyUpdate ==
  /\ [][\A t \in Threads : EmptyUpdate(t) => ctx'[t] = ctx[t]]_vars
  /\ [](\A t \in Threads :
         (Hashed(t) /\ fed[t] = <<>>) =>
           output[t] = xzalgochain_final(xzalgochain_init(force_scalar, host),
                                         force_scalar, host, OMP_ALONE)[2])

\* An update with no byte has returned on a freshly initialised context
C16_Witness ==
  /\ last[MainThread] = "update"
  /\ calls[MainThread] >= 1
  /\ fed[MainThread] = <<>>
  /\ ctx[MainThread] = xzalgochain_init(force_scalar, host)

(* C25 (final stays inside the buffer): in every sequence of calls in      *)
(* which final is called at most once after each init or reset, final      *)
(* writes the 0x80 byte at an index of at most 127 and fills a             *)
(* non-negative number of bytes with zeros: before the final the buffer    *)
(* length is below 128, and the final has no undefined behaviour.          *)
C25_OneFinalInBounds ==
  \A t \in Threads :
    /\ (finals[t] = 0 /\ ~fault) => ctx[t].buffer_len <= 127
    /\ (\A u \in Threads : finals[u] <= 1) => ~fault

\* The one final of a run has returned on a buffer that held 127 bytes, the
\* 0x80 byte at index 127
C25_Witness ==
  /\ Hashed(MainThread)
  /\ Len(fed[MainThread]) = LenLong
  /\ ctx[MainThread].buffer[128] = 128
  /\ ctx[MainThread].buffer_len = 128

(* ------------- One thread on each machine and each build --------------- *)

\* The machines and builds without OpenMP
Hosts == {HOST_GENERIC, HOST_GENERIC_BE, HOST_X86, HOST_X86_OLD, HOST_ARM, HOST_ARM_BE}

HostChunks == {Pattern(LenShort), Pattern(LenLong)}

MaxCallsHosts == 2

InitHosts == \E h \in Hosts : \E f \in BOOLEAN : InitOn(h, f)

NextHosts ==
  \/ \E c \in HostChunks : DoUpdate(MainThread, c, MaxCallsHosts)
  \/ DoFinal(MainThread, MaxCallsHosts)

SpecHosts == InitHosts /\ [][NextHosts]_vars

\* C7 (back-end independence): the 40 bytes final writes on a machine and
\* build are those it writes there under the other setting of the
\* force-scalar flag, hence with the other executor where the build has a
\* vector executor, for the empty input and for inputs that end inside a
\* block alike.
C7_BackendIndependence ==
  Hashed(MainThread) =>
    output[MainThread] = Digest(fed[MainThread], host, ~force_scalar)

\* The AVX2 executor has hashed an input that ends inside a block
C7_Witness ==
  /\ Hashed(MainThread)
  /\ host = HOST_X86
  /\ ~force_scalar
  /\ flag_reads[MainThread] = {FALSE}
  /\ Len(fed[MainThread]) = LenLong

\* The same machine and build with the other byte order
other_endian(h) == [h EXCEPT !.bigEndian = ~h.bigEndian]

\* C10 (endianness independence): the digest init/update/final produce on a
\* big-endian machine is byte for byte the one they produce on a
\* little-endian machine, and conversely.
C10_EndianIndependence ==
  Hashed(MainThread) =>
    output[MainThread] = Digest(fed[MainThread], other_endian(host), force_scalar)

\* A big-endian machine has hashed an input of more than one block
C10_Witness ==
  /\ Hashed(MainThread)
  /\ host.bigEndian
  /\ Len(fed[MainThread]) = LenLong

(* ------- One thread hashing while another thread changes the flag ------- *)

\* The machines and builds on which the flag selects between two executors
FlagHosts == {HOST_X86, HOST_ARM}

FlagChunks == {Pattern(LenShort)}

MaxCallsFlag == 2

InitFlag == \E h \in FlagHosts : \E f \in BOOLEAN : InitOn(h, f)

NextFlag ==
  \/ \E force \in BOOLEAN : DoForceScalar(force)
  \/ \E c \in FlagChunks : DoUpdate(MainThread, c, MaxCallsFlag)
  \/ FinalEnter(MainThread, MaxCallsFlag)
  \/ LittleBoxStep(MainThread)
  \/ FinalLeave(MainThread)

SpecFlag == InitFlag /\ [][NextFlag]_vars

\* C8 (the flag only selects the executor): whenever the flag was set or
\* cleared before init, between the calls or between any two executor calls
\* of final, the digest of the run is the digest of the same input with the
\* flag left at zero throughout.
C8_FlagOnlySelects ==
  Hashed(MainThread) =>
    output[MainThread] = Digest(fed[MainThread], host, FALSE)

\* A final whose executor calls read the flag both set and clear has returned
C8_Witness ==
  /\ Hashed(MainThread)
  /\ flag_reads[MainThread] = {FALSE, TRUE}
  /\ Len(fed[MainThread]) = LenShort

\* The hash words of a context that has absorbed the bytes m and whose final
\* has run process_block on the padded block
PaddedWords(m) ==
  final_block(final_pad(xzalgochain_update(xzalgochain_init(FALSE, host), m, host)),
              host.bigEndian).h

(* C23 (H is mutated by the compression function and the finalizer only):  *)
(* during final, from the call of process_block on the padded block to the *)
(* output mixing, the salt generator, the executor calls and the five BIG  *)
(* boxes leave the five words of h unchanged.                              *)
C23_BoxesKeepH ==
  /\ [][\A t \in Threads :
          (pc[t] = "final" /\ pc'[t] = "final") => ctx'[t].h = ctx[t].h]_vars
  /\ [](\A t \in Threads :
          (pc[t] = "final" /\ finals[t] = 1 /\ ~wiped[t]) =>
            ctx[t].h = PaddedWords(fed[t]))

\* The five BIG boxes of a final have run, and the output mixing has not
C23_Witness ==
  /\ pc[MainThread] = "final"
  /\ frame[MainThread].bb = BIG_BOX_COUNT
  /\ Len(fed[MainThread]) = LenShort
  /\ ctx[MainThread].big_box_state # ZERO_BIG

(* --------------- Several threads, each on its own context --------------- *)

\* A build without OpenMP whose threads are created by the program, and the
\* build and the team of tests/hash_counter.c
ThreadHosts == {HOST_GENERIC, HOST_X86_OPENMP_TEAM}

\* The bytes thread t hashes
ThreadInput(t) == Pattern(LenShort + t)

MaxCallsThreads == 2

InitThreads == \E h \in ThreadHosts : InitOn(h, FALSE)

NextThreads ==
  \E t \in Threads :
    \/ DoUpdate(t, ThreadInput(t), MaxCallsThreads)
    \/ FinalEnter(t, MaxCallsThreads)
    \/ FinalReturn(t)

SpecThreads == InitThreads /\ [][NextThreads]_vars

\* C9 (thread safety with one context a thread): under every interleaving of
\* the calls of threads that each use their own context and output buffer,
\* each thread is returned the digest its own input has when hashed alone.
C9_ThreadSafe ==
  \A t \in Threads :
    Hashed(t) => output[t] = Digest(fed[t], host, force_scalar)

\* Every thread of the team has hashed its own input
C9_Witness ==
  /\ host = HOST_X86_OPENMP_TEAM
  /\ \A t \in Threads : Hashed(t) /\ fed[t] = ThreadInput(t)

(* C13 (determinism): two independent runs init, update .. update, final   *)
(* with the same update arguments return the same 40 bytes, whatever the   *)
(* context and the output array held before: two threads that have hashed  *)
(* the same bytes on their own contexts hold the same output.              *)
C13_Deterministic ==
  \A t, u \in Threads :
    Hashed(t) /\ Hashed(u) /\ fed[t] = fed[u] => output[t] = output[u]

\* Two threads of the team have hashed the same bytes
C13_Witness ==
  /\ host = HOST_X86_OPENMP_TEAM
  /\ \E t, u \in Threads : t # u /\ Hashed(t) /\ Hashed(u) /\ fed[t] = fed[u]
(* ---------------------- the single-shot function ---------------------- *)

\* The messages given to xzalgochain()
SingleInputs ==
  {<<>>, <<0>>, <<1>>, Pattern(8), Pattern(39), Pattern(40), Pattern(LenShort),
   Pattern(LenShort + 8), Pattern(LenLong)}

InitSingle == \E h \in Hosts : \E f \in BOOLEAN : InitOn(h, f)

MaxCallsSingle == 1

NextSingle == \E m \in SingleInputs : DoSingleShot(MainThread, m, MaxCallsSingle)

SpecSingle == InitSingle /\ [][NextSingle]_vars

\* What xzalgochain() returns for m on host h, called outside a team
SingleShot(m, h, f) == xzalgochain(m, f, h, OMP_ALONE)

(* C11: the 40 bytes xzalgochain() returns for a message do not depend on  *)
(* the byte order of the machine: a machine of the other byte order        *)
(* returns the same bytes.                                                 *)
C11_SingleShotEndian ==
  call.op = "xzalgochain" =>
    call.output = SingleShot(call.data, other_endian(host), force_scalar)

\* xzalgochain() has returned on a big-endian machine
C11_Witness == call.op = "xzalgochain" /\ host.bigEndian /\ call.data = <<>>

\* The five words a machine reads in 40 bytes, and the 40 bytes of five
\* words written least significant byte first
WordsRead(bytes, bigEndian) ==
  [i \in 1..5 |-> LET w == SubSeq(bytes, 8*i - 7, 8*i)
                  IN  IF bigEndian THEN [j \in 1..8 |-> w[9 - j]] ELSE w]
WordsWritten(w) == w[1] \o w[2] \o w[3] \o w[4] \o w[5]

\* One mixing pass on five words: word i is rotated right by 19, xored
\* with the xor of the words 0..i rotated left by 37, multiplied, and xored
\* with word (i+2) mod 5 shifted right by 27; the words 3 and 4 take the
\* words 0 and 1 the pass has already replaced
MixedWord(x, acc, y) ==
  XOR(MUL(XOR(rotr64(x, 19), rotl64(acc, 37)), U64(\hBF58, \h476D, \h1CE4, \hE5B9)),
      SHR(y, 27))
MixPassTail(w, n0, n1, n2) ==
  <<n0, n1, n2,
    MixedWord(w[4], XOR(XOR(XOR(w[1], w[2]), w[3]), w[4]), n0),
    MixedWord(w[5], XOR(XOR(XOR(XOR(w[1], w[2]), w[3]), w[4]), w[5]), n1)>>
MixPass(w) ==
  MixPassTail(w, MixedWord(w[1], w[1], w[3]),
                 MixedWord(w[2], XOR(w[1], w[2]), w[4]),
                 MixedWord(w[3], XOR(XOR(w[1], w[2]), w[3]), w[5]))

\* The pass after the three: word i becomes extra_mix(word i) xor word
\* (i+2) mod 5, the words 3 and 4 taking the new words 0 and 1
ExtraPassTail(w, n0, n1, n2) ==
  <<n0, n1, n2, XOR(extra_mix(w[4]), n0), XOR(extra_mix(w[5]), n1)>>
ExtraPass(w) ==
  ExtraPassTail(w, XOR(extra_mix(w[1]), w[3]), XOR(extra_mix(w[2]), w[4]),
                   XOR(extra_mix(w[3]), w[5]))

\* The streaming digest re-read as five words, mixed three times and
\* written back
ThreePasses(d, bigEndian) ==
  After(d, WordsWritten(MixPass(MixPass(MixPass(WordsRead(d, bigEndian))))))

(* C12 as stated: what xzalgochain() returns is the streaming digest of    *)
(* the message re-read as five words, transformed by exactly three mixing  *)
(* passes and written back, and nothing else.                              *)
C12_ThreePassesOnly ==
  call.op = "xzalgochain" =>
    call.output = ThreePasses(Digest(call.data, host, force_scalar), host.bigEndian)

(* C12, amended: what xzalgochain() returns is the streaming digest of the *)
(* message re-read as five words in the byte order of the machine, mixed   *)
(* by three passes, written back least significant byte first, re-read,    *)
(* transformed by one more pass of extra_mix, and written back again.      *)
C12_ThreePassesAndExtra ==
  call.op = "xzalgochain" =>
    call.output =
      WordsWritten(ExtraPass(WordsRead(
        ThreePasses(Digest(call.data, host, force_scalar), host.bigEndian),
        host.bigEndian)))

\* xzalgochain() has returned for a message of more than one block
C12_Witness == call.op = "xzalgochain" /\ Len(call.data) = LenLong

(* ---------------------- the compression function ---------------------- *)

\* The hash words process_block is given: those of a fresh context, and
\* those after one block of a message
BlockStates ==
  {xzalgochain_init(FALSE, HOST_GENERIC).h,
   process_block(xzalgochain_init(FALSE, HOST_GENERIC).h,
                 load_block(Pattern(128), 0, FALSE))}

\* The blocks: 128 bytes of a message, and the block of zeros
Blocks == {load_block(Pattern(128), 0, FALSE), load_block(ZERO_BUFFER, 0, FALSE)}

\* The words that replace one word of a block
BlockWords == {U64(\hFFFF, \hFFFF, \hFFFF, \hFFFF), U64(0, 0, 0, 1)}

MaxCallsBlock == 1

InitBlock == InitOn(HOST_GENERIC, FALSE)

NextBlock ==
  \E h \in BlockStates : \E block \in Blocks : \E k \in 0..15 : \E w \in BlockWords :
    /\ w # block[k + 1]
    /\ DoProcessBlocks(MainThread, h, block, k, w, MaxCallsBlock)

SpecBlock == InitBlock /\ [][NextBlock]_vars

(* C18 as stated: the words process_block leaves in h depend on the words  *)
(* block[0..10] only: changing any of block[11], block[12], block[13],     *)
(* block[14], block[15] leaves them unchanged.                             *)
C18_DependsOnFirstEleven ==
  (call.op = "process_block" /\ call.changed \in 11..15) =>
    call.result_changed = call.result

(* C18, amended: the words process_block leaves in h depend on the words   *)
(* block[0..14]: changing block[15] leaves them unchanged, and changing    *)
(* one of block[0..14], block[11..14] included, changes them.              *)
C18_DependsOnFirstFifteen ==
  call.op = "process_block" =>
    (call.result_changed = call.result <=> call.changed = 15)

\* process_block has run on two blocks that differ in block[11]
C18_Witness ==
  /\ call.op = "process_block"
  /\ call.changed = 11
  /\ call.result_changed # call.result

(* ------------------ the last eight bytes of a block ------------------- *)

\* The message m with every byte at the offsets 120..127 of a block of 128
\* bytes replaced by another one
Altered(m) ==
  [i \in 1..Len(m) |-> IF (i - 1) % 128 >= 120 THEN (m[i] + i) % 256 ELSE m[i]]

\* The chunks of the two threads: a whole block and a block followed by 127
\* bytes, as they are for the first thread and altered for the others
ByteChunks(t) ==
  IF t = MainThread THEN {Pattern(128), Pattern(LenLong)}
  ELSE {Altered(Pattern(128)), Altered(Pattern(LenLong))}

MaxCallsBytes == 2

InitBytes == InitOn(HOST_GENERIC, FALSE)

NextBytes ==
  \E t \in Threads :
    \/ \E c \in ByteChunks(t) : DoUpdate(t, c, MaxCallsBytes)
    \/ DoFinal(t, MaxCallsBytes)

SpecBytes == InitBytes /\ [][NextBytes]_vars

\* m and n have the same length and differ at most in the bytes at the
\* offsets 120..127 of the blocks of 128 bytes
SameButLastWords(m, n) ==
  /\ Len(m) = Len(n)
  /\ \A i \in 1..Len(m) : m[i] # n[i] => (i - 1) % 128 >= 120

LaneWord(p) == [j \in 1..8 |-> (p*29 + j*53 + 7) % 256]
LaneContents(n) ==
  {[p \in 1..10*n |-> LaneWord(p)],
   [p \in 1..10*n |-> U64(\hFFFF, \hFFFF, \hFFFF, \hFFFF)]}

SaltWords == {ZERO64, U64(\h0123, \h4567, \h89AB, \hCDEF)}

\* The round bases of the first and of a later LITTLE box
RoundBases == {0, 30}

Backends == {SIMD_NONE, SIMD_AVX2, SIMD_NEON}

\* The batch sizes: a part of a group of 4 lanes, a whole group, and a group
\* followed by a part of one
MaxBatch == 5

MaxCallsLittleBox == 1

InitLittleBox == InitOn(HOST_GENERIC, FALSE)

NextLittleBox ==
  \E backend \in Backends : \E n \in 1..MaxBatch : \E input \in LaneContents(n) :
    \E salt \in SaltWords : \E round_base \in RoundBases :
      DoLittleBox(MainThread, backend, input, salt, round_base, n, MaxCallsLittleBox)

SpecLittleBox == InitLittleBox /\ [][NextLittleBox]_vars

\* The vector an executor gives to its second lane mix: the words k of the
\* lanes of the group at blk, through the arx mix of the back-end
ArxMixed(c, blk, k, j, r1, r2) ==
  CASE c.backend = SIMD_AVX2 ->
         arx_mix(load_vec(c.input, c.num_blocks, blk, k), vec256_set1(c.salt_scalar),
                 rc_vec(c.round_base, j), r1, r2)
    [] c.backend = SIMD_NEON ->
         n256_arx_mix(load_vec(c.input, c.num_blocks, blk, k), n256_set1(c.salt_scalar),
                      rc_vec(c.round_base, j), r1, r2)
    [] OTHER ->
         arx_mix_vector(load_vec(c.input, c.num_blocks, blk, k),
                        vec256_set1(c.salt_scalar), rc_vec(c.round_base, j), r1, r2)

\* Lanes 0 and 1 of the vector are equal, and so are lanes 2 and 3
PairedLanes(v) == v[1] = v[2] /\ v[3] = v[4]

\* The six vectors of a group: the word loaded, the first round constant,
\* the two rotations
GroupVectors ==
  {<<1, 0, 7, 13>>, <<0, 0, 7, 13>>, <<5, 4, 11, 17>>, <<4, 4, 11, 17>>,
   <<9, 8, 19, 23>>, <<8, 8, 19, 23>>}

LaneAlone(c, b) ==
  CASE c.backend = SIMD_AVX2 ->
         little_box_execute_simd_avx2(SubSeq(c.input, 10*b + 1, 10*b + 10),
                                      c.salt_scalar, c.round_base, 1, OMP_ALONE)
    [] c.backend = SIMD_NEON ->
         little_box_execute_simd_neon(SubSeq(c.input, 10*b + 1, 10*b + 10),
                                      c.salt_scalar, c.round_base, 1, OMP_ALONE)
    [] OTHER ->
         little_box_execute_scalar(SubSeq(c.input, 10*b + 1, 10*b + 10),
                                   c.salt_scalar, c.round_base, 1, OMP_ALONE)

(* C21: for any batch of lanes, salt word and round base, an executor run  *)
(* once on the whole batch leaves every lane as the executor leaves it     *)
(* when run on that lane alone as a batch of size one, and as the scalar   *)
(* executor leaves it when run on that lane alone.                         *)
C21_BatchIsLaneByLane ==
  call.op = "little_box_execute" =>
    \A b \in 0..(call.num_blocks - 1) :
      /\ SubSeq(call.result, 10*b + 1, 10*b + 10) = LaneAlone(call, b)
      /\ SubSeq(call.result, 10*b + 1, 10*b + 10) =
           little_box_execute_scalar(SubSeq(call.input, 10*b + 1, 10*b + 10),
                                     call.salt_scalar, call.round_base, 1, OMP_ALONE)

\* An executor has run on a whole group of 4 lanes and a tail of one lane
C21_Witness ==
  /\ call.op = "little_box_execute"
  /\ call.num_blocks = 5
  /\ call.backend = SIMD_NEON
  /\ call.input[43] # ZERO64
  /\ call.result[43] = call.input[43]


\* Word k of lane b of the array the call was given, and of the array it
\* left
WordBefore(c, b, k) == c.input[10*b + k + 1]
WordAfter(c, b, k) == c.result[10*b + k + 1]

(* C27: for every lane of every batch, each of the three executors leaves  *)
(* the words 2, 3, 6 and 7 of the lane as they were, and the array as long *)
(* as it was: the words it changes are among the words 0, 1, 4, 5, 8 and 9 *)
(* of the lanes.                                                           *)
C27_FourWordsKept ==
  call.op = "little_box_execute" =>
    /\ Len(call.result) = 10 * call.num_blocks
    /\ \A b \in 0..(call.num_blocks - 1) : \A k \in {2, 3, 6, 7} :
         WordAfter(call, b, k) = WordBefore(call, b, k)

\* The scalar executor has run on 5 lanes of patterned words: the words 2
\* and 7 of the last lane are the patterns, its words 0 and 9 are not
C27_Witness ==
  /\ call.op = "little_box_execute"
  /\ call.backend = SIMD_NONE
  /\ call.num_blocks = 5
  /\ WordBefore(call, 4, 2) = LaneWord(43)
  /\ WordAfter(call, 4, 2) = LaneWord(43)
  /\ WordAfter(call, 4, 7) = LaneWord(48)
  /\ WordAfter(call, 4, 0) # WordBefore(call, 4, 0)
  /\ WordAfter(call, 4, 9) # WordBefore(call, 4, 9)
(* ------------------ the paths of little_box_execute_simd --------------- *)

\* A build without SIMD, one with AVX2 and one with NEON
PathHosts == {HOST_GENERIC, HOST_X86, HOST_ARM}

MaxCallsPaths == 1

InitPaths == \E h \in PathHosts : \E f \in BOOLEAN : InitOn(h, f)

NextPaths ==
  \E n \in 1..MaxBatch : \E input \in LaneContents(n) : \E salt \in SaltWords :
    \/ DoLittleBoxSimd(MainThread, input, salt, 0, n, MaxCallsPaths)
    \/ \E backend \in Backends :
         DoLittleBox(MainThread, backend, input, salt, 0, n, MaxCallsPaths)

SpecPaths == InitPaths /\ [][NextPaths]_vars

\* The call that has returned is one of an executor, or one of
\* little_box_execute_simd
ExecutorCalled == call.op \in {"little_box_execute", "little_box_execute_simd"}

\* The first lanes of the groups of four lanes of a batch of n lanes
GroupStarts(n) == {blk \in 0..(n - 1) : blk % 4 = 0}

\* little_box_execute_simd has handed the lanes one at a time to the scalar
\* executor: the flag is set, or the build has no SIMD back-end
LaneAtATime ==
  call.op = "little_box_execute_simd" /\ (force_scalar \/ host.built = SIMD_NONE)

(* C22 as stated: the cross-lane mixing of the four words L[9] is applied  *)
(* to a group if and only if the group contains all four lanes, in every   *)
(* path, the forced-scalar path of little_box_execute_simd included.       *)
C22_MixedIffFullGroup ==
  ExecutorCalled =>
    \A blk \in GroupStarts(call.num_blocks) :
      blk \in call.mixed <=> blk + 3 < call.num_blocks

(* C22, amended: in the three executors, and in little_box_execute_simd    *)
(* when it calls the AVX2 or the NEON executor, the cross-lane mixing is   *)
(* applied to a group if and only if the group contains all four lanes;    *)
(* when little_box_execute_simd hands the lanes one at a time to the       *)
(* scalar executor (the flag set, or a build without SIMD), the mixing is  *)
(* applied to no group, whatever the batch, and the lanes come out the     *)
(* same, the words L[9] being zero.                                        *)
C22_MixedIffFullGroupOfOneCall ==
  ExecutorCalled =>
    /\ \A blk \in GroupStarts(call.num_blocks) :
         blk \in call.mixed <=> (~LaneAtATime /\ blk + 3 < call.num_blocks)
    /\ \A b \in 0..(call.num_blocks - 1) : call.result[10*b + 10] = ZERO64

\* little_box_execute_simd has run on a whole group with the flag set
C22_Witness ==
  /\ LaneAtATime
  /\ force_scalar
  /\ host.built = SIMD_AVX2
  /\ call.num_blocks = 4
  /\ call.mixed = {}

(* ------------------------- the padding of final ------------------------ *)

\* The messages that leave 0 .. 127 bytes in the buffer
PadInputs == {Pattern(n) : n \in 0..127}

\* update is the first call on the context, final may follow it
MaxCallsPadUpdate == 1
MaxCallsPad == 2

InitPad == InitOn(HOST_GENERIC, FALSE)

NextPad ==
  \/ \E m \in PadInputs : DoUpdate(MainThread, m, MaxCallsPadUpdate)
  \/ FinalEnter(MainThread, MaxCallsPad)
  \/ FinalReturn(MainThread)

SpecPad == InitPad /\ [][NextPad]_vars

\* The block of 128 bytes that holds the bytes m, one 0x80 byte and zeros
PaddedBlock(m) ==
  [i \in 1..128 |-> IF i <= Len(m) THEN m[i] ELSE IF i = Len(m) + 1 THEN 128 ELSE 0]

\* The context of a run init, update(m) with its bit counter inverted
OtherBitCount(m) ==
  [xzalgochain_update(xzalgochain_init(force_scalar, host), m, host)
     EXCEPT !.total_bits = NOT(@)]

ExportedInputs == {<<>>, <<1>>, Pattern(LenShort), Pattern(LenShort + 8), Pattern(LenLong)}

InitExported == \E h \in Hosts : \E f \in BOOLEAN : InitOn(h, f)

MaxCallsExported == 1

NextExported ==
  \E m \in ExportedInputs :
    \/ DoLib(MainThread, m, MaxCallsExported)
    \/ DoWasm(MainThread, m, MaxCallsExported)

SpecExported == InitExported /\ [][NextExported]_vars

\* One of the two exported one-call functions has returned
ExportedCalled == call.op \in {"xzalgochain_lib", "xzalgochain_wasm"}

(* C26: what xzalgochain_lib() and xzalgochain_wasm() return for a message *)
(* is the output of init, update with the message, final, and it is not    *)
(* what the header's xzalgochain() returns for the message.                *)
C26_ExportedIsStreaming ==
  ExportedCalled =>
    /\ call.output = Digest(call.data, host, force_scalar)
    /\ call.output # SingleShot(call.data, host, force_scalar)

\* xzalgochain_wasm() has returned the digest of a message of more than a
\* block
C26_Witness ==
  /\ call.op = "xzalgochain_wasm"
  /\ Len(call.data) = LenLong
  /\ call.output = Digest(call.data, host, force_scalar)

(* ------------------------------ the lane mix --------------------------- *)

\* The words of the vectors given to the lane mix, and the vectors
MixWords == {LaneWord(1), LaneWord(2), LaneWord(3), U64(\hFFFF, \hFFFF, \hFFFF, \hFFFF)}
MixVectors == {<<a, b, c, d>> : a \in MixWords, b \in MixWords, c \in MixWords, d \in MixWords}

MaxCallsMixLanes == 1

InitMixLanes == InitOn(HOST_GENERIC, FALSE)

NextMixLanes ==
  \E backend \in Backends : \E v \in MixVectors :
    DoMixLanes(MainThread, backend, v, MaxCallsMixLanes)

SpecMixLanes == InitMixLanes /\ [][NextMixLanes]_vars

\* x ^ rotl(x, 17) lane by lane, for the xor x of the vectors p0 and p1
MixOf(p0, p1) ==
  [i \in 1..4 |-> XOR(XOR(p0[i], p1[i]), rotl64(XOR(p0[i], p1[i]), 17))]

\* The lanes of p reordered: lane d of the result is lane o[d + 1] of p
Reordered(p, o) == [d \in 1..4 |-> p[o[d] + 1]]

(* C28 as stated: the lane mix of every back-end returns x ^ rotl(x, 17)   *)
(* for x = p0 ^ p1, p0 the lanes (V[1],V[0],V[3],V[2]) of its argument and *)
(* p1 the lanes (p0[2],p0[3],p0[0],p0[1]).                                 *)
C28_MixLanesAdjacentFirst ==
  call.op = "mix_lanes" =>
    call.result = MixOf(Reordered(call.v, <<1, 0, 3, 2>>),
                        Reordered(Reordered(call.v, <<1, 0, 3, 2>>), <<2, 3, 0, 1>>))

(* C28, amended: the lane mix of every back-end returns x ^ rotl(x, 17)    *)
(* for x = p0 ^ p1, p0 the lanes (V[2],V[3],V[0],V[1]) of its argument,    *)
(* which is what pattern 0x4E selects, and p1 the lanes                    *)
(* (p0[1],p0[0],p0[3],p0[2]), which is what pattern 0xB1 selects.          *)
C28_MixLanesHalvesFirst ==
  call.op = "mix_lanes" =>
    call.result = MixOf(Reordered(call.v, <<2, 3, 0, 1>>),
                        Reordered(Reordered(call.v, <<2, 3, 0, 1>>), <<1, 0, 3, 2>>))

\* The scalar lane mix has run on a vector of four different words: lane 0
\* of what it returns comes from lanes 2 and 3 of the vector
C28_Witness ==
  /\ call.op = "mix_lanes"
  /\ call.backend = SIMD_NONE
  /\ Cardinality({call.v[1], call.v[2], call.v[3], call.v[4]}) = 4
  /\ call.result[1] = XOR(XOR(call.v[3], call.v[4]), rotl64(XOR(call.v[3], call.v[4]), 17))

(* ----------------------- the lane-wise multiplication ------------------ *)

\* The words multiplied: 1, a word of the low half only, a pattern, all ones
MulWords ==
  {U64(\h0000, \h0000, \h0000, \h0001), U64(\h0000, \h0000, \h1234, \h5678),
   LaneWord(1), U64(\hFFFF, \hFFFF, \hFFFF, \hFFFF)}
MulVectors == {<<a, b, c, d>> : a \in MulWords, b \in MulWords, c \in {LaneWord(1)}, d \in MulWords}

\* The multipliers: the constant of the arx mix, and a word of the low half
Multipliers == {K_ARX, U64(\h0000, \h0000, \h0000, \h808A)}

MaxCallsMul == 1

InitMul == InitOn(HOST_X86, FALSE)

NextMul ==
  \E backend \in Backends : \E v \in MulVectors : \E c \in Multipliers :
    DoMulLanes(MainThread, backend, v, c, MaxCallsMul)

SpecMul == InitMul /\ [][NextMul]_vars

(* C29: in every back-end each lane of the product of a vector and a       *)
(* multiplier is the low 64 bits of the product of the lane and the        *)
(* multiplier.                                                             *)
C29_WrappingProduct ==
  call.op = "mul64" =>
    \A i \in 1..4 : call.result[i] = MUL(call.v[i], call.c)

\* mullo64 has multiplied a vector whose lane 0 is 1 by the constant of the
\* arx mix, and lane 0 of what it returns is 0x808A
C29_Witness ==
  /\ call.op = "mul64"
  /\ call.backend = SIMD_AVX2
  /\ call.c = K_ARX
  /\ call.v[1] = U64(\h0000, \h0000, \h0000, \h0001)
  /\ call.result[1] = U64(\h0000, \h0000, \h0000, \h808A)

(* --------------------------- the salt generator ------------------------ *)

\* The states H given to generate_salt: the one init leaves, and five words
\* of a pattern
SaltInputs == {xzalgochain_init(FALSE, HOST_GENERIC).h, [i \in 1..5 |-> LaneWord(i)]}

\* The words put in an entry of the table
SeedWords == {ZERO64, U64(\hFFFF, \hFFFF, \hFFFF, \hFFFF)}

\* The entries of the table
SeedEntries == 32

MaxCallsSalt == 1

InitSalt == InitOn(HOST_GENERIC, FALSE)

NextSalt ==
  \E input \in SaltInputs : \E k \in 0..(SeedEntries - 1) : \E w \in SeedWords :
    DoGenerateSalt(MainThread, input, k, w, MaxCallsSalt)

SpecSalt == InitSalt /\ [][NextSalt]_vars

(* C30: the five words generate_salt returns are the same whatever word an *)
(* entry 8..31 of its table holds when the rounds begin, although the      *)
(* rounds change every one of these entries.                               *)
C30_SaltOfFirstEight ==
  (call.op = "generate_salt" /\ call.changed >= 8) =>
    /\ call.result_changed = call.result
    /\ call.table[call.changed + 1] # call.seed[call.changed + 1]

\* generate_salt has run on the state init leaves with the last entry of
\* its table made all ones, and with entry 7 made all ones: the first salt
\* is the one it returns, the second is another
C30_Witness ==
  /\ call.op = "generate_salt"
  /\ call.changed = 31
  /\ call.word = U64(\hFFFF, \hFFFF, \hFFFF, \hFFFF)
  /\ call.input = xzalgochain_init(FALSE, HOST_GENERIC).h
  /\ call.result_changed = generate_salt(call.input)
  /\ salt_from([salt_seed(call.input) EXCEPT ![8] = call.word]) # call.result
====
